---- MODULE Spec2Model ----
(***************************************************************************)
(* Model of the WinDev-Setup provisioning scripts:                         *)
(*   winget_dev_installer.py  (WingetInstaller)                            *)
(*   npm_dev_installer.py     (NpmInstaller)                               *)
(*   main.py                  (DevEnvironmentInstaller, the orchestrator)  *)
(* One behaviour is one run of one script.  A step is the part of the      *)
(* script that runs up to and including one blocking operation (an         *)
(* external command waited on with subprocess.run, or one input() read).   *)
(* Text (command output, typed answers, package identifiers) is a sequence *)
(* of one-character strings so that strip/lower/split/"in" are computed.   *)
(***************************************************************************)
EXTENDS Integers, Sequences, FiniteSets, TLC

VARIABLES
    script,               \* which script this run executes
    argv,                 \* the command-line flags given (sys.argv)
    pc,                   \* position of the process
    i,                    \* 1-based index of the package being processed
    is_installed,         \* locals of install_all, set by the state check
    current_version,
    available_version,
    successful_installs,  \* the four tallies (lists of display names)
    successful_upgrades,
    failed_installs,
    skipped_packages,
    summary,              \* the summaries printed so far (none, or one)
    npm_cmd,              \* NpmInstaller.npm_cmd
    winget_success,       \* orchestrator: phase results
    npm_success,
    calls,                \* history: every external command started, in order
    typed,                \* history: the last line read by the prompt of this step
    pstate,               \* history: state the check reported, per package
    answer,               \* history: what the update prompt returned, per package
    files,                \* status-file generator: the content of each file
    linesep,              \* os.linesep of the platform
    profile_path,         \* the startup file this run resolved
    runs,                 \* how many runs of the generator have completed
    first                 \* history: the files and the path after the first run

vars == <<script, argv, pc, i, is_installed, current_version, available_version,
          successful_installs, successful_upgrades, failed_installs,
          skipped_packages, summary, npm_cmd, winget_success, npm_success,
          calls, typed, pstate, answer, files, linesep, profile_path, runs,
          first>>

\* Python's None where a string is expected: no text is equal to it
None == <<"None">>
\* no line was read from standard input
NoRead == [kind |-> "none", text |-> <<>>]

(***************************************************************************)
(* Bounds                                                                  *)
(***************************************************************************)
\* number of entries of the static package list that a run processes
NumPackages == 2

\* how many times in succession the status-file generator is run
MaxRuns == 2

(***************************************************************************)
(* Text: Python str operations on sequences of characters                  *)
(***************************************************************************)
UpperAlpha == <<"A","B","C","D","E","F","G","H","I","J","K","L","M",
                "N","O","P","Q","R","S","T","U","V","W","X","Y","Z">>
LowerAlpha == <<"a","b","c","d","e","f","g","h","i","j","k","l","m",
                "n","o","p","q","r","s","t","u","v","w","x","y","z">>

LowerChar(c) ==
    IF \E k \in 1..26 : UpperAlpha[k] = c
    THEN LowerAlpha[CHOOSE k \in 1..26 : UpperAlpha[k] = c]
    ELSE c

\* str.lower()
Lower(s) == [k \in 1..Len(s) |-> LowerChar(s[k])]

IsSpace(c) == c \in {" ", "\n", "\t", "\r"}

RECURSIVE LStrip(_)
LStrip(s) == IF s # <<>> /\ IsSpace(Head(s)) THEN LStrip(Tail(s)) ELSE s

RECURSIVE RStrip(_)
RStrip(s) ==
    IF s # <<>> /\ IsSpace(s[Len(s)]) THEN RStrip(SubSeq(s, 1, Len(s) - 1)) ELSE s

\* str.strip()
Strip(s) == RStrip(LStrip(s))

\* sub in s  (substring test)
Contains(s, sub) ==
    \E k \in 1..(Len(s) - Len(sub) + 1) : SubSeq(s, k, k + Len(sub) - 1) = sub

\* s.split('\n'): the lines of s, empty lines kept
RECURSIVE SplitLines(_)
SplitLines(s) ==
    IF \E k \in 1..Len(s) : s[k] = "\n"
    THEN LET k == CHOOSE k \in 1..Len(s) :
                      s[k] = "\n" /\ \A j \in 1..(k - 1) : s[j] # "\n"
         IN  <<SubSeq(s, 1, k - 1)>> \o SplitLines(SubSeq(s, k + 1, Len(s)))
    ELSE <<s>>

\* s.split(): the maximal runs of non-whitespace characters of s
RECURSIVE SplitWs(_)
SplitWs(s) ==
    LET t == LStrip(s) IN
    IF t = <<>> THEN <<>>
    ELSE IF \E k \in 1..Len(t) : IsSpace(t[k])
         THEN LET k == CHOOSE k \in 1..Len(t) :
                           IsSpace(t[k]) /\ \A j \in 1..(k - 1) : ~IsSpace(t[j])
              IN  <<SubSeq(t, 1, k - 1)>> \o SplitWs(SubSeq(t, k, Len(t)))
         ELSE <<t>>

\* Python truthiness of an Optional[str]
Truthy(v) == v # None /\ v # <<>>

Unknown == <<"U","n","k","n","o","w","n">>
Sp == <<" ">>
Nl == <<"\n">>

(***************************************************************************)
(* subprocess.run: what one external command can do.  A result is either   *)
(* a completed process (returncode, stdout) or a raised exception.         *)
(* returncode 1 stands for every non-zero exit code.                       *)
(***************************************************************************)
\* (timeout: was the call given a timeout=... argument)
Returned(rc, out) ==
    [exc |-> "none", returncode |-> rc, stdout |-> out, timeout |-> FALSE]
Raised(e) == [exc |-> e, returncode |-> 0 - 1, stdout |-> <<>>, timeout |-> FALSE]

\* subprocess.run(cmd, check=check[, timeout=...]) with the child writing one of
\* the texts outs; timed says whether a timeout is given.  Without a timeout
\* TimeoutExpired cannot be raised; without check=True CalledProcessError cannot.
SubprocessRun(outs, check, timed) ==
    { [r EXCEPT !.timeout = timed] :
        r \in {Returned(0, o) : o \in outs}
              \cup (IF check THEN {Raised("CalledProcessError")}
                             ELSE {Returned(1, o) : o \in outs})
              \cup {Raised("FileNotFoundError")}
              \cup (IF timed THEN {Raised("TimeoutExpired")} ELSE {}) }

(***************************************************************************)
(* The static package tables (the first entries are processed)             *)
(***************************************************************************)
WingetTable ==
    << [name |-> "7-Zip", winget_id |-> <<"7","z","i","p",".","7","z","i","p">>],
       [name |-> "Brave Browser",
        winget_id |-> <<"B","r","a","v","e",".","B","r","a","v","e">>],
       [name |-> "Notion",
        winget_id |-> <<"N","o","t","i","o","n",".","N","o","t","i","o","n">>],
       [name |-> "Git",
        winget_id |-> <<"M","i","c","r","o","s","o","f","t",".","G","i","t">>] >>

NpmTable ==
    << [name |-> "Vite", package_name |-> <<"v","i","t","e">>],
       [name |-> "Yarn", package_name |-> <<"y","a","r","n">>],
       [name |-> "NP", package_name |-> <<"n","p">>],
       [name |-> "NPX", package_name |-> <<"n","p","x">>] >>

\* self.packages of the installer this run executes
packages ==
    IF script = "npm" THEN SubSeq(NpmTable, 1, NumPackages)
    ELSE SubSeq(WingetTable, 1, NumPackages)

Indices == 1..NumPackages

(***************************************************************************)
(* The static package lists, identifier by identifier, in list order.      *)
(***************************************************************************)
\* mutation: the list names Git a second time
Winget_package_ids_repeated ==
    << <<"7","z","i","p",".","7","z","i","p">>,
       <<"B","r","a","v","e",".","B","r","a","v","e">>,
       <<"N","o","t","i","o","n",".","N","o","t","i","o","n">>,
       <<"M","i","c","r","o","s","o","f","t",".","G","i","t">>,
       <<"M","i","c","r","o","s","o","f","t",".","G","i","t">> >>

\* the winget_id of each entry of WingetInstaller.packages
Winget_package_ids ==
    << <<"M","i","c","r","o","s","o","f","t",".","V","i","s","u","a","l","S","t","u","d","i","o","C","o","d","e">>,
       <<"M","i","c","r","o","s","o","f","t",".","G","i","t">>,
       <<"P","y","t","h","o","n",".","P","y","t","h","o","n",".","3",".","1","2">>,
       <<"O","p","e","n","J","S",".","N","o","d","e","J","S">>,
       <<"D","o","c","k","e","r",".","D","o","c","k","e","r","D","e","s","k","t","o","p">>,
       <<"G","o","o","g","l","e",".","C","h","r","o","m","e">>,
       <<"B","r","a","v","e",".","B","r","a","v","e">>,
       <<"O","r","a","c","l","e",".","V","i","r","t","u","a","l","B","o","x">>,
       <<"A","n","t","h","r","o","p","i","c",".","C","l","a","u","d","e">>,
       <<"M","i","c","r","o","s","o","f","t",".","P","o","w","e","r","T","o","y","s">>,
       <<"M","i","c","r","o","s","o","f","t",".","W","i","n","d","o","w","s","T","e","r","m","i","n","a","l">>,
       <<"7","z","i","p",".","7","z","i","p">>,
       <<"P","o","s","t","m","a","n",".","P","o","s","t","m","a","n">>,
       <<"D","i","s","c","o","r","d",".","D","i","s","c","o","r","d">>,
       <<"S","l","a","c","k","T","e","c","h","n","o","l","o","g","i","e","s",".","S","l","a","c","k">>,
       <<"N","o","t","i","o","n",".","N","o","t","i","o","n">>,
       <<"O","B","S","P","r","o","j","e","c","t",".","O","B","S","S","t","u","d","i","o">> >>

\* the package_name of each entry of NpmInstaller.packages
Npm_package_names ==
    << <<"@","g","o","o","g","l","e","-","a","i","/","g","e","n","e","r","a","t","i","v","e","l","a","n","g","u","a","g","e">>,
       <<"o","p","e","n","a","i">>,
       <<"t","y","p","e","s","c","r","i","p","t">>,
       <<"c","r","e","a","t","e","-","r","e","a","c","t","-","a","p","p">>,
       <<"c","r","e","a","t","e","-","n","e","x","t","-","a","p","p">>,
       <<"@","v","u","e","/","c","l","i">>,
       <<"@","a","n","g","u","l","a","r","/","c","l","i">>,
       <<"n","o","d","e","m","o","n">>,
       <<"l","i","v","e","-","s","e","r","v","e","r">>,
       <<"h","t","t","p","-","s","e","r","v","e","r">>,
       <<"j","s","o","n","-","s","e","r","v","e","r">>,
       <<"c","o","n","c","u","r","r","e","n","t","l","y">>,
       <<"e","s","l","i","n","t">>,
       <<"p","r","e","t","t","i","e","r">>,
       <<"j","s","h","i","n","t">>,
       <<"s","t","a","n","d","a","r","d">>,
       <<"w","e","b","p","a","c","k","-","c","l","i">>,
       <<"v","i","t","e">>,
       <<"p","a","r","c","e","l">>,
       <<"r","o","l","l","u","p">>,
       <<"y","a","r","n">>,
       <<"p","n","p","m">>,
       <<"n","p","x">>,
       <<"n","p">>,
       <<"s","e","m","a","n","t","i","c","-","r","e","l","e","a","s","e">>,
       <<"j","e","s","t">>,
       <<"m","o","c","h","a">>,
       <<"c","y","p","r","e","s","s">>,
       <<"p","l","a","y","w","r","i","g","h","t">>,
       <<"l","o","d","a","s","h","-","c","l","i">>,
       <<"m","o","m","e","n","t">>,
       <<"a","x","i","o","s">>,
       <<"c","h","a","l","k">>,
       <<"c","o","m","m","a","n","d","e","r">>,
       <<"m","o","n","g","o","d","b">>,
       <<"p","r","i","s","m","a">>,
       <<"g","r","a","p","h","q","l","-","c","l","i">>,
       <<"@","a","p","o","l","l","o","/","c","l","i","e","n","t">>,
       <<"v","e","r","c","e","l">>,
       <<"n","e","t","l","i","f","y","-","c","l","i">>,
       <<"f","i","r","e","b","a","s","e","-","t","o","o","l","s">>,
       <<"h","e","r","o","k","u">>,
       <<"j","s","d","o","c">>,
       <<"@","s","t","o","r","y","b","o","o","k","/","c","l","i">>,
       <<"@","d","o","c","u","s","a","u","r","u","s","/","c","o","r","e">>,
       <<"l","i","g","h","t","h","o","u","s","e">>,
       <<"b","u","n","d","l","e","p","h","o","b","i","a">>,
       <<"s","p","e","e","d","-","t","e","s","t">> >>

\* the winget_id of each entry of DevEnvInstaller.winget_packages
DevEnv_winget_ids ==
    << <<"M","i","c","r","o","s","o","f","t",".","V","i","s","u","a","l","S","t","u","d","i","o","C","o","d","e">>,
       <<"J","a","n","D","e","D","o","b","b","e","l","e","e","r",".","O","h","M","y","P","o","s","h">>,
       <<"M","i","c","r","o","s","o","f","t",".","N","e","r","d","F","o","n","t","s",".","F","i","r","a","C","o","d","e">>,
       <<"F","a","s","t","f","e","t","c","h","-","c","l","i",".","F","a","s","t","f","e","t","c","h">>,
       <<"M","i","c","r","o","s","o","f","t",".","G","i","t">>,
       <<"O","p","e","n","J","S",".","N","o","d","e","J","S">>,
       <<"D","o","c","k","e","r",".","D","o","c","k","e","r","D","e","s","k","t","o","p">>,
       <<"G","o","o","g","l","e",".","C","h","r","o","m","e">>,
       <<"B","r","a","v","e",".","B","r","a","v","e">>,
       <<"O","r","a","c","l","e",".","V","i","r","t","u","a","l","B","o","x">>,
       <<"A","n","t","h","r","o","p","i","c",".","C","l","a","u","d","e">>,
       <<"M","i","c","r","o","s","o","f","t",".","P","o","w","e","r","T","o","y","s">>,
       <<"M","i","c","r","o","s","o","f","t",".","W","i","n","d","o","w","s","T","e","r","m","i","n","a","l">>,
       <<"7","z","i","p",".","7","z","i","p">>,
       <<"P","o","s","t","m","a","n",".","P","o","s","t","m","a","n">>,
       <<"D","i","s","c","o","r","d",".","D","i","s","c","o","r","d">>,
       <<"S","l","a","c","k","T","e","c","h","n","o","l","o","g","i","e","s",".","S","l","a","c","k">>,
       <<"N","o","t","i","o","n",".","N","o","t","i","o","n">>,
       <<"O","B","S","P","r","o","j","e","c","t",".","O","B","S","S","t","u","d","i","o">>,
       <<"V","i","d","e","o","L","A","N",".","V","L","C">>,
       <<"9","N","K","S","Q","G","P","7","F","2","N","H">>,
       <<"T","e","l","e","g","r","a","m",".","T","e","l","e","g","r","a","m","D","e","s","k","t","o","p">> >>

\* the package_name of each entry of DevEnvInstaller.npm_packages
DevEnv_npm_package_names ==
    << <<"@","g","o","o","g","l","e","-","a","i","/","g","e","n","e","r","a","t","i","v","e","l","a","n","g","u","a","g","e">>,
       <<"o","p","e","n","a","i">>,
       <<"t","y","p","e","s","c","r","i","p","t">>,
       <<"c","r","e","a","t","e","-","r","e","a","c","t","-","a","p","p">>,
       <<"c","r","e","a","t","e","-","n","e","x","t","-","a","p","p">>,
       <<"@","v","u","e","/","c","l","i">>,
       <<"@","a","n","g","u","l","a","r","/","c","l","i">>,
       <<"n","o","d","e","m","o","n">>,
       <<"l","i","v","e","-","s","e","r","v","e","r">>,
       <<"h","t","t","p","-","s","e","r","v","e","r">>,
       <<"j","s","o","n","-","s","e","r","v","e","r">>,
       <<"c","o","n","c","u","r","r","e","n","t","l","y">>,
       <<"e","s","l","i","n","t">>,
       <<"p","r","e","t","t","i","e","r">>,
       <<"j","s","h","i","n","t">>,
       <<"s","t","a","n","d","a","r","d">>,
       <<"w","e","b","p","a","c","k","-","c","l","i">>,
       <<"v","i","t","e">>,
       <<"p","a","r","c","e","l">>,
       <<"r","o","l","l","u","p">>,
       <<"y","a","r","n">>,
       <<"p","n","p","m">>,
       <<"n","p","x">>,
       <<"n","p">>,
       <<"s","e","m","a","n","t","i","c","-","r","e","l","e","a","s","e">>,
       <<"j","e","s","t">>,
       <<"m","o","c","h","a">>,
       <<"c","y","p","r","e","s","s">>,
       <<"p","l","a","y","w","r","i","g","h","t">>,
       <<"l","o","d","a","s","h","-","c","l","i">>,
       <<"m","o","m","e","n","t">>,
       <<"a","x","i","o","s">>,
       <<"c","h","a","l","k">>,
       <<"c","o","m","m","a","n","d","e","r">>,
       <<"m","o","n","g","o","d","b">>,
       <<"p","r","i","s","m","a">>,
       <<"g","r","a","p","h","q","l","-","c","l","i">>,
       <<"@","a","p","o","l","l","o","/","c","l","i","e","n","t">>,
       <<"v","e","r","c","e","l">>,
       <<"n","e","t","l","i","f","y","-","c","l","i">>,
       <<"f","i","r","e","b","a","s","e","-","t","o","o","l","s">>,
       <<"h","e","r","o","k","u">>,
       <<"j","s","d","o","c">>,
       <<"@","s","t","o","r","y","b","o","o","k","/","c","l","i">>,
       <<"@","d","o","c","u","s","a","u","r","u","s","/","c","o","r","e">>,
       <<"l","i","g","h","t","h","o","u","s","e">>,
       <<"b","u","n","d","l","e","p","h","o","b","i","a">>,
       <<"s","p","e","e","d","-","t","e","s","t">> >>


(***************************************************************************)
(* Texts the package managers may print for one identifier                 *)
(***************************************************************************)
V1 == <<"1",".","0">>
V2 == <<"2",".","0">>
WingetHeader == <<"N","a","m","e"," ","I","d"," ","V","e","r","s","i","o","n">>

\* a table with a row for id:  App <id> 1.0 2.0
WingetRow(id) == WingetHeader \o Nl \o <<"A","p","p">> \o Sp \o id \o Sp \o V1 \o Sp \o V2

\* what winget list / upgrade / search may print when asked about id
WingetOutputs(id) == { WingetHeader, WingetRow(Lower(id)), id }

\* a tree row for id:  +-- <id>@1.0      as printed by npm list -g --depth=0 <id>
NpmListRow(id) == <<"+","-","-"," ">> \o id \o <<"@">> \o V1
\* a row for id:  <id> 1.0 1.0 2.0 global      as printed by npm outdated -g <id>
NpmOutdatedRow(id) ==
    id \o Sp \o V1 \o Sp \o V1 \o Sp \o V2 \o Sp \o <<"g","l","o","b","a","l">>

NpmListOutputs(id) == { <<"(","e","m","p","t","y",")">>, NpmListRow(id), id }
NpmOutdatedOutputs(id) == { <<>>, NpmOutdatedRow(id), id }

\* a version banner (winget --version, npm --version, node --version)
VersionOutputs == { <<"v","1","8",".","0">>, <<>> }

(***************************************************************************)
(* Shared shape of the two installers                                      *)
(***************************************************************************)
locals == <<is_installed, current_version, available_version>>
tallies == <<successful_installs, successful_upgrades, failed_installs,
             skipped_packages>>
phases == <<winget_success, npm_success>>
generator == <<files, linesep, profile_path, runs, first>>

\* how a command ended: "ok" (exit code 0), "nonzero", or the exception raised
ResultKind(r) ==
    IF r.exc # "none" THEN r.exc ELSE IF r.returncode = 0 THEN "ok" ELSE "nonzero"

\* one more external command was run, for package k (0: for no package), and
\* ended as r; named: did the script find the package identifier in its output
Call(k, cmd, r, named) ==
    calls' = Append(calls, [pkg |-> k, cmd |-> cmd, result |-> ResultKind(r),
                            named |-> named, timed |-> r.timeout])

\* an exception nobody catches: the interpreter prints a traceback and the
\* process ends with a non-zero exit code
Crash ==
    /\ pc' = "crashed"
    /\ UNCHANGED <<i, locals, tallies, summary, pstate, answer>>

\* mutation: a non-empty failed tally gives exit code 1
ExitCode_failures_propagate ==
    IF pc = "crashed" \/ failed_installs # <<>> THEN 1 ELSE 0

\* the exit code of the ended process (if __name__ == "__main__": main()):
\* 0 when main() returned, since no script calls sys.exit; 1 when an exception
\* left main() and the interpreter printed its traceback
ExitCode == IF pc = "crashed" THEN 1 ELSE 0

\* mutation: the installs are left out of the count of successful operations
PrintSummary_counts_upgrades_only(si, su, fi, sk) ==
    [installed |-> si, upgraded |-> su, skipped |-> sk, failed |-> fi,
     total_successful |-> Len(su),
     total_processed |-> Len(packages)]

\* the summary lines printed after the loop
PrintSummary(si, su, fi, sk) ==
    [installed |-> si, upgraded |-> su, skipped |-> sk, failed |-> fi,
     total_successful |-> Len(si) + Len(su),
     total_processed |-> Len(packages)]

\* mutation: the loop ends after the package at hand, whatever its position
RecordAndContinue_ends_loop(t) ==
    /\ successful_installs' = IF t = "installed"
          THEN Append(successful_installs, packages[i].name) ELSE successful_installs
    /\ successful_upgrades' = IF t = "upgraded"
          THEN Append(successful_upgrades, packages[i].name) ELSE successful_upgrades
    /\ failed_installs' = IF t = "failed"
          THEN Append(failed_installs, packages[i].name) ELSE failed_installs
    /\ skipped_packages' = IF t = "skipped"
          THEN Append(skipped_packages, packages[i].name) ELSE skipped_packages
    /\ i' = i
    /\ pc' = "done"
    /\ summary' = <<PrintSummary(successful_installs', successful_upgrades',
                                 failed_installs', skipped_packages')>>

\* mutation: a failed package is recorded as failed and as skipped
RecordAndContinue_failure_also_skipped(t) ==
    /\ successful_installs' = IF t = "installed"
          THEN Append(successful_installs, packages[i].name) ELSE successful_installs
    /\ successful_upgrades' = IF t = "upgraded"
          THEN Append(successful_upgrades, packages[i].name) ELSE successful_upgrades
    /\ failed_installs' = IF t = "failed"
          THEN Append(failed_installs, packages[i].name) ELSE failed_installs
    /\ skipped_packages' = IF t \in {"skipped", "failed"}
          THEN Append(skipped_packages, packages[i].name) ELSE skipped_packages
    /\ IF i < Len(packages)
       THEN /\ i' = i + 1
            /\ pc' = "list"
            /\ summary' = summary
       ELSE /\ i' = i
            /\ pc' = "done"
            /\ summary' = <<PrintSummary(successful_installs', successful_upgrades',
                                       failed_installs', skipped_packages')>>

\* <tally>.append(package.name) for the tally named t, then the end of the
\* loop body: on to the next package, or past the loop to the summary
RecordAndContinue(t) ==
    /\ successful_installs' = IF t = "installed"
          THEN Append(successful_installs, packages[i].name) ELSE successful_installs
    /\ successful_upgrades' = IF t = "upgraded"
          THEN Append(successful_upgrades, packages[i].name) ELSE successful_upgrades
    /\ failed_installs' = IF t = "failed"
          THEN Append(failed_installs, packages[i].name) ELSE failed_installs
    /\ skipped_packages' = IF t = "skipped"
          THEN Append(skipped_packages, packages[i].name) ELSE skipped_packages
    /\ IF i < Len(packages)
       THEN /\ i' = i + 1
            /\ pc' = "list"
            /\ summary' = summary
       ELSE /\ i' = i
            /\ pc' = "done"
            /\ summary' = <<PrintSummary(successful_installs', successful_upgrades',
                                       failed_installs', skipped_packages')>>

\* the state of a package as the branches of install_all read it off the
\* triple returned by check_package_installed_and_updatable
PackageState(inst, avail) ==
    IF inst /\ Truthy(avail) THEN "InstalledUpdateAvailable"
    ELSE IF inst /\ ~Truthy(avail) THEN "InstalledUpToDate"
    ELSE "NotInstalled"

\* mutation: the answer is compared without .lower()
YesNo_case_sensitive(line) ==
    LET choice == Strip(line) IN
    IF choice \in { <<"y">>, <<"y","e","s">> } THEN "yes"
    ELSE IF choice \in { <<"n">>, <<"n","o">> } THEN "no"
    ELSE "again"

\* choice = input(...).strip().lower(); the decision of one pass of the
\* while True loop of a yes/no prompt: return True, return False, or go round again
YesNo(line) ==
    LET choice == Lower(Strip(line)) IN
    IF choice \in { <<"y">>, <<"y","e","s">> } THEN "yes"
    ELSE IF choice \in { <<"n">>, <<"n","o">> } THEN "no"
    ELSE "again"

\* mutation: the except KeyboardInterrupt clause is missing
PromptAnswer_interrupt_propagates(ev) ==
    IF ev.kind = "line" THEN YesNo(ev.text) ELSE "raise"

\* one pass of the try block of a prompt's while True loop on the event ev that
\* input() delivers: KeyboardInterrupt is caught and returns False, any other
\* exception (EOFError) is not caught
PromptAnswer(ev) ==
    IF ev.kind = "KeyboardInterrupt" THEN "no"
    ELSE IF ev.kind = "line" THEN YesNo(ev.text)
    ELSE "raise"

\* what one input() call can deliver: a typed line, or an exception
Lines == { <<"y">>, <<" ","Y","e","s"," ">>, <<"N">>, <<"n","o","\n">>,
           <<>>, <<"y","e">>, <<"n","o","p","e">>, <<"y"," ","e","s">> }
Stdin ==
    {[kind |-> "line", text |-> l] : l \in Lines}
    \cup {[kind |-> "KeyboardInterrupt", text |-> <<>>],
          [kind |-> "EOFError", text |-> <<>>]}

\* mutation: the exit code of the action is not looked at
ActionOk_ignores_exit_code(r) == r.exc = "none"

\* mutation: an action that times out counts as done
ActionOk_timeout_is_success(r) ==
    (r.exc = "none" /\ r.returncode = 0) \/ r.exc = "TimeoutExpired"

\* is the action a success: the command returned with exit code 0
ActionOk(r) == r.exc = "none" /\ r.returncode = 0

(***************************************************************************)
(* winget_dev_installer.py                                                 *)
(***************************************************************************)
WingetVersionCmd == <<"winget", "--version">>
WingetSourceCmd == <<"winget", "source", "update">>
WingetListCmd == <<"winget", "list", "--id", "--exact">>
WingetUpgradeQueryCmd == <<"winget", "upgrade", "--id", "--exact">>
WingetSearchCmd == <<"winget", "search", "--exact">>
WingetUpgradeCmd == <<"winget", "upgrade", "--id", "--exact",
                      "--accept-source-agreements", "--accept-package-agreements">>
WingetInstallCmd == <<"winget", "install", "--id", "--exact",
                      "--accept-source-agreements", "--accept-package-agreements">>

\* package.winget_id.lower() in result.stdout.lower()
Winget_id_in(id, stdout) == Contains(Lower(stdout), Lower(id))

\* result.returncode == 0 and package.winget_id.lower() in result.stdout.lower()
Winget_id_reported(id, r) == r.returncode = 0 /\ Winget_id_in(id, r.stdout)

\* mutation: a row with too few columns gives None instead of "Unknown"
Winget_parse_versions_none_on_failure(id, stdout) ==
    LET lines == SplitLines(stdout)
        hits == {k \in 1..Len(lines) : Winget_id_in(id, lines[k])}
    IN  IF hits = {} THEN [current |-> None, available |-> None]
        ELSE LET k == CHOOSE k \in hits : \A j \in hits : k <= j
                 parts == SplitWs(lines[k])
             IN  IF Len(parts) >= 3
                 THEN [current |-> parts[2], available |-> parts[3]]
                 ELSE [current |-> None, available |-> None]

\* the version columns of the first line of the upgrade output that names id
Winget_parse_versions(id, stdout) ==
    LET lines == SplitLines(stdout)
        hits == {k \in 1..Len(lines) : Winget_id_in(id, lines[k])}
    IN  IF hits = {} THEN [current |-> Unknown, available |-> Unknown]
        ELSE LET k == CHOOSE k \in hits : \A j \in hits : k <= j
                 parts == SplitWs(lines[k])
             IN  IF Len(parts) >= 3
                 THEN [current |-> parts[2], available |-> parts[3]]
                 ELSE [current |-> Unknown, available |-> Unknown]

\* the exceptions the except clause of check_package_installed_and_updatable names
Winget_check_catches == {"CalledProcessError"}

\* the exceptions the except clause of search_package names
Winget_search_catches == {"CalledProcessError"}

\* main(): the help text, or install_all
Winget_main ==
    /\ script = "winget" /\ pc = "main"
    /\ pc' = IF "--help" \in argv \/ "-h" \in argv THEN "done"
             ELSE "check_winget_available"
    /\ typed' = NoRead
    /\ UNCHANGED <<generator, script, argv, i, locals, tallies, summary, npm_cmd, phases,
                   calls, pstate, answer>>

\* mutation: a missing winget ends the script with a non-zero exit code
Winget_check_winget_available_exits_nonzero ==
    /\ script = "winget" /\ pc = "check_winget_available"
    /\ \E r \in SubprocessRun(VersionOutputs, TRUE, FALSE) :
         /\ Call(0, WingetVersionCmd, r, FALSE)
         /\ pc' = IF r.exc = "none" THEN "update_winget_sources" ELSE "crashed"
    /\ typed' = NoRead
    /\ UNCHANGED <<generator, script, argv, i, locals, tallies, summary, npm_cmd, phases,
                   pstate, answer>>

\* install_all: if not self.check_winget_available(): return
Winget_check_winget_available ==
    /\ script = "winget" /\ pc = "check_winget_available"
    /\ \E r \in SubprocessRun(VersionOutputs, TRUE, FALSE) :
         /\ Call(0, WingetVersionCmd, r, FALSE)
         /\ pc' = IF r.exc = "none" THEN "update_winget_sources"
                  ELSE IF r.exc \in {"CalledProcessError", "FileNotFoundError"}
                       THEN "done"
                       ELSE "crashed"
    /\ typed' = NoRead
    /\ UNCHANGED <<generator, script, argv, i, locals, tallies, summary, npm_cmd, phases,
                   pstate, answer>>

\* update_winget_sources, then the tallies are created and the loop starts
Winget_update_winget_sources ==
    /\ script = "winget" /\ pc = "update_winget_sources"
    /\ \E r \in SubprocessRun({<<>>}, TRUE, FALSE) :
         /\ Call(0, WingetSourceCmd, r, FALSE)
         /\ pc' = IF r.exc \in {"none", "CalledProcessError"} THEN "list"
                  ELSE "crashed"
    /\ typed' = NoRead
    /\ UNCHANGED <<generator, script, argv, i, locals, tallies, summary, npm_cmd, phases,
                   pstate, answer>>

\* mutation: the search is never made (the test of skip_search is lost)
Winget_not_installed_never_searches ==
    /\ is_installed' = FALSE
    /\ current_version' = None
    /\ available_version' = None
    /\ pstate' = [pstate EXCEPT ![i] = PackageState(FALSE, None)]
    /\ pc' = "install"
    /\ UNCHANGED <<i, tallies, summary, answer>>

\* the package is not installed: the else branch of the loop body, up to the
\* next external command
Winget_not_installed ==
    /\ is_installed' = FALSE
    /\ current_version' = None
    /\ available_version' = None
    /\ pstate' = [pstate EXCEPT ![i] = PackageState(FALSE, FALSE)]
    /\ pc' = IF "--skip-search" \in argv THEN "install" ELSE "search"
    /\ UNCHANGED <<i, tallies, summary, answer>>

\* check_package_installed_and_updatable: winget list
Winget_list ==
    /\ script = "winget" /\ pc = "list"
    /\ \E r \in SubprocessRun(WingetOutputs(packages[i].winget_id), FALSE, FALSE) :
         /\ Call(i, WingetListCmd, r,
                 Winget_id_in(packages[i].winget_id, r.stdout))
         /\ IF r.exc = "none"
            THEN IF Winget_id_reported(packages[i].winget_id, r)
                 THEN /\ pc' = "upgrade_query"
                      /\ UNCHANGED <<i, locals, tallies, summary, pstate, answer>>
                 ELSE Winget_not_installed
            ELSE IF r.exc \in Winget_check_catches
                 THEN Winget_not_installed
                 ELSE Crash
    /\ typed' = NoRead
    /\ UNCHANGED <<generator, script, argv, npm_cmd, phases>>

\* check_package_installed_and_updatable: winget upgrade --id <id> --exact,
\* and the branch of install_all on what it returned
Winget_upgrade_query ==
    /\ script = "winget" /\ pc = "upgrade_query"
    /\ \E r \in SubprocessRun(WingetOutputs(packages[i].winget_id), FALSE, FALSE) :
         /\ Call(i, WingetUpgradeQueryCmd, r,
                 Winget_id_in(packages[i].winget_id, r.stdout))
         /\ IF r.exc = "none"
            THEN LET v == Winget_parse_versions(packages[i].winget_id, r.stdout)
                     found == Winget_id_reported(packages[i].winget_id, r)
                     cur == IF found THEN v.current ELSE None
                     avail == IF found THEN v.available ELSE None
                 IN  /\ is_installed' = TRUE
                     /\ current_version' = cur
                     /\ available_version' = avail
                     /\ pstate' = [pstate EXCEPT ![i] = PackageState(TRUE, avail)]
                     /\ IF PackageState(TRUE, avail) = "InstalledUpdateAvailable"
                        THEN /\ pc' = "prompt"
                             /\ UNCHANGED <<i, tallies, summary>>
                        ELSE RecordAndContinue("skipped")
                     /\ UNCHANGED <<answer>>
            ELSE IF r.exc \in Winget_check_catches
                 THEN Winget_not_installed
                 ELSE Crash
    /\ typed' = NoRead
    /\ UNCHANGED <<generator, script, argv, npm_cmd, phases>>

\* prompt_user_for_package_update: one input() of its while True loop, and the
\* branch of install_all when it returns False
Winget_prompt_user_for_package_update ==
    /\ script = "winget" /\ pc = "prompt"
    /\ \E ev \in Stdin :
         /\ typed' = ev
         /\ IF PromptAnswer(ev) = "raise"
            THEN Crash
            ELSE IF PromptAnswer(ev) = "no"
            THEN /\ answer' = [answer EXCEPT ![i] = "no"]
                 /\ RecordAndContinue("skipped")
                 /\ UNCHANGED <<locals, pstate>>
            ELSE IF PromptAnswer(ev) = "yes"
            THEN /\ answer' = [answer EXCEPT ![i] = "yes"]
                 /\ pc' = "upgrade"
                 /\ UNCHANGED <<i, locals, tallies, summary, pstate>>
            ELSE /\ pc' = "prompt"
                 /\ UNCHANGED <<i, locals, tallies, summary, pstate, answer>>
    /\ UNCHANGED <<generator, script, argv, npm_cmd, phases, calls>>

\* upgrade_package, and the tally install_all puts the package in
Winget_upgrade_package ==
    /\ script = "winget" /\ pc = "upgrade"
    /\ \E r \in SubprocessRun({<<>>}, FALSE, TRUE) :
         /\ Call(i, WingetUpgradeCmd, r, FALSE)
         /\ RecordAndContinue(IF ActionOk(r) THEN "upgraded" ELSE "failed")
    /\ typed' = NoRead
    /\ UNCHANGED <<generator, script, argv, locals, npm_cmd, phases, pstate, answer>>

\* search_package, and the branch of install_all on what it returned
Winget_search_package ==
    /\ script = "winget" /\ pc = "search"
    /\ \E r \in SubprocessRun(WingetOutputs(packages[i].winget_id), TRUE, FALSE) :
         /\ Call(i, WingetSearchCmd, r,
                 Winget_id_in(packages[i].winget_id, r.stdout))
         /\ IF r.exc = "none" /\ Winget_id_reported(packages[i].winget_id, r)
            THEN /\ pc' = "install"
                 /\ UNCHANGED <<i, tallies, summary>>
            ELSE IF r.exc = "none" \/ r.exc \in Winget_search_catches
                 THEN RecordAndContinue("failed")
                 ELSE /\ pc' = "crashed"
                      /\ UNCHANGED <<i, tallies, summary>>
    /\ typed' = NoRead
    /\ UNCHANGED <<generator, script, argv, locals, npm_cmd, phases, pstate, answer>>

\* install_package, and the tally install_all puts the package in
Winget_install_package ==
    /\ script = "winget" /\ pc = "install"
    /\ \E r \in SubprocessRun({<<>>}, FALSE, TRUE) :
         /\ Call(i, WingetInstallCmd, r, FALSE)
         /\ RecordAndContinue(IF ActionOk(r) THEN "installed" ELSE "failed")
    /\ typed' = NoRead
    /\ UNCHANGED <<generator, script, argv, locals, npm_cmd, phases, pstate, answer>>

WingetNext ==
    \/ Winget_main
    \/ Winget_check_winget_available
    \/ Winget_update_winget_sources
    \/ Winget_list
    \/ Winget_upgrade_query
    \/ Winget_prompt_user_for_package_update
    \/ Winget_upgrade_package
    \/ Winget_search_package
    \/ Winget_install_package

(***************************************************************************)
(* npm_dev_installer.py                                                    *)
(***************************************************************************)
NpmVersionCmd(cmd) == <<cmd, "--version">>
NodeVersionCmd == <<"node", "--version">>
NpmCacheCmd(cmd) == <<cmd, "cache", "clean", "--force">>
NpmListCmd(cmd) == <<cmd, "list", "-g", "--depth=0">>
NpmOutdatedCmd(cmd) == <<cmd, "outdated", "-g">>
NpmInstallCmd(cmd) == <<cmd, "install", "-g">>
NpmUpdateCmd(cmd) == <<cmd, "update", "-g">>

\* package.package_name in result.stdout
Npm_name_in(id, stdout) == Contains(stdout, id)

\* result.returncode == 0 and package.package_name in result.stdout
Npm_name_reported(id, r) == r.returncode = 0 /\ Npm_name_in(id, r.stdout)

\* line.split('@')[-1]: what follows the last '@' of the line
RECURSIVE AfterLastAt(_)
AfterLastAt(s) ==
    IF \E k \in 1..Len(s) : s[k] = "@"
    THEN AfterLastAt(SubSeq(s, (CHOOSE k \in 1..Len(s) : s[k] = "@") + 1, Len(s)))
    ELSE s

\* the current version: from the first line of the list output that has the
\* name and an '@'
Npm_parse_current(id, stdout) ==
    LET lines == SplitLines(stdout)
        hits == {k \in 1..Len(lines) :
                    Contains(lines[k], id) /\ Contains(lines[k], <<"@">>)}
    IN  IF hits = {} THEN Unknown
        ELSE Strip(AfterLastAt(lines[CHOOSE k \in hits : \A j \in hits : k <= j]))

\* the available version: the 4th column of the first line of the outdated
\* output that has the name
Npm_parse_available(id, stdout) ==
    LET lines == SplitLines(stdout)
        hits == {k \in 1..Len(lines) : Contains(lines[k], id)}
    IN  IF hits = {} THEN Unknown
        ELSE LET parts == SplitWs(lines[CHOOSE k \in hits : \A j \in hits : k <= j])
             IN  IF Len(parts) >= 4 THEN parts[4] ELSE Unknown

\* the exceptions the except clause of check_package_installed_and_updatable names
Npm_check_catches == {"CalledProcessError"}

\* main() after NpmInstaller() is constructed: the help text, or install_all
Npm_main_after_init ==
    IF "--help" \in argv \/ "-h" \in argv THEN "done" ELSE "check_node_version"

\* main(): NpmInstaller() runs _get_npm_command, which tries npm --version
Npm_get_npm_command ==
    /\ script = "npm" /\ pc = "main"
    /\ \E r \in SubprocessRun(VersionOutputs, TRUE, FALSE) :
         /\ Call(0, NpmVersionCmd("npm"), r, FALSE)
         /\ IF r.exc = "none"
            THEN npm_cmd' = "npm" /\ pc' = Npm_main_after_init
            ELSE IF r.exc = "FileNotFoundError"
                 THEN npm_cmd' = npm_cmd /\ pc' = "get_npm_command_fallback"
                 ELSE npm_cmd' = npm_cmd /\ pc' = "crashed"
    /\ typed' = NoRead
    /\ UNCHANGED <<generator, script, argv, i, locals, tallies, summary, phases, pstate,
                   answer>>

\* _get_npm_command: npm was not found, try npm.cmd --version
Npm_get_npm_command_fallback ==
    /\ script = "npm" /\ pc = "get_npm_command_fallback"
    /\ \E r \in SubprocessRun(VersionOutputs, TRUE, FALSE) :
         /\ Call(0, NpmVersionCmd("npm.cmd"), r, FALSE)
         /\ IF r.exc = "none"
            THEN npm_cmd' = "npm.cmd" /\ pc' = Npm_main_after_init
            ELSE IF r.exc = "FileNotFoundError"
                 THEN npm_cmd' = "npm" /\ pc' = Npm_main_after_init
                 ELSE npm_cmd' = npm_cmd /\ pc' = "crashed"
    /\ typed' = NoRead
    /\ UNCHANGED <<generator, script, argv, i, locals, tallies, summary, phases, pstate,
                   answer>>

\* install_all: if not self.check_node_version() ...: return
\* (an unparseable version banner is a ValueError, caught: still True)
Npm_check_node_version ==
    /\ script = "npm" /\ pc = "check_node_version"
    /\ \E r \in SubprocessRun(VersionOutputs, TRUE, FALSE) :
         /\ Call(0, NodeVersionCmd, r, FALSE)
         /\ pc' = IF r.exc = "none" THEN "check_npm_available"
                  ELSE IF r.exc \in {"CalledProcessError", "FileNotFoundError"}
                       THEN "done"
                       ELSE "crashed"
    /\ typed' = NoRead
    /\ UNCHANGED <<generator, script, argv, i, locals, tallies, summary, npm_cmd, phases,
                   pstate, answer>>

\* install_all: ... or not self.check_npm_available(): return
Npm_check_npm_available ==
    /\ script = "npm" /\ pc = "check_npm_available"
    /\ \E r \in SubprocessRun(VersionOutputs, TRUE, FALSE) :
         /\ Call(0, NpmVersionCmd(npm_cmd), r, FALSE)
         /\ pc' = IF r.exc = "none"
                  THEN IF "--show-categories" \in argv \/ "--list" \in argv
                       THEN "confirm" ELSE "update_npm_cache"
                  ELSE IF r.exc \in {"FileNotFoundError", "CalledProcessError"}
                       THEN "done"
                       ELSE "crashed"
    /\ typed' = NoRead
    /\ UNCHANGED <<generator, script, argv, i, locals, tallies, summary, npm_cmd, phases,
                   pstate, answer>>

\* mutation: a no answer to the confirmation lets the installation start
Npm_confirm_proceed_ignores_no ==
    /\ script = "npm" /\ pc = "confirm"
    /\ \E ev \in Stdin :
         /\ typed' = ev
         /\ pc' = IF PromptAnswer(ev) = "raise" THEN "crashed"
                  ELSE IF PromptAnswer(ev) \in {"yes", "no"} THEN "update_npm_cache"
                  ELSE "confirm"
    /\ UNCHANGED <<generator, script, argv, i, locals, tallies, summary, npm_cmd, phases,
                   calls, pstate, answer>>

\* install_all with show_categories: one input() of the confirmation loop
Npm_confirm_proceed ==
    /\ script = "npm" /\ pc = "confirm"
    /\ \E ev \in Stdin :
         /\ typed' = ev
         /\ pc' = IF PromptAnswer(ev) = "raise" THEN "crashed"
                  ELSE IF PromptAnswer(ev) = "no" THEN "done"
                  ELSE IF PromptAnswer(ev) = "yes" THEN "update_npm_cache"
                  ELSE "confirm"
    /\ UNCHANGED <<generator, script, argv, i, locals, tallies, summary, npm_cmd, phases,
                   calls, pstate, answer>>

\* update_npm_cache, then the tallies are created and the loop starts
Npm_update_npm_cache ==
    /\ script = "npm" /\ pc = "update_npm_cache"
    /\ \E r \in SubprocessRun({<<>>}, TRUE, FALSE) :
         /\ Call(0, NpmCacheCmd(npm_cmd), r, FALSE)
         /\ pc' = IF r.exc \in {"none", "CalledProcessError"} THEN "list"
                  ELSE "crashed"
    /\ typed' = NoRead
    /\ UNCHANGED <<generator, script, argv, i, locals, tallies, summary, npm_cmd, phases,
                   pstate, answer>>

\* mutation: the user is asked before a missing package is installed
Npm_not_installed_prompts ==
    /\ is_installed' = FALSE
    /\ current_version' = None
    /\ available_version' = None
    /\ pstate' = [pstate EXCEPT ![i] = PackageState(FALSE, None)]
    /\ pc' = "prompt"
    /\ UNCHANGED <<i, tallies, summary, answer>>

\* the package is not installed: the else branch of the loop body, up to the
\* install command
Npm_not_installed ==
    /\ is_installed' = FALSE
    /\ current_version' = None
    /\ available_version' = None
    /\ pstate' = [pstate EXCEPT ![i] = PackageState(FALSE, None)]
    /\ pc' = "install"
    /\ UNCHANGED <<i, tallies, summary, answer>>

\* check_package_installed_and_updatable: npm list -g --depth=0 <name>
Npm_list ==
    /\ script = "npm" /\ pc = "list"
    /\ \E r \in SubprocessRun(NpmListOutputs(packages[i].package_name), FALSE, FALSE) :
         /\ Call(i, NpmListCmd(npm_cmd), r,
                 Npm_name_in(packages[i].package_name, r.stdout))
         /\ IF r.exc = "none"
            THEN IF Npm_name_reported(packages[i].package_name, r)
                 THEN /\ pc' = "outdated"
                      /\ is_installed' = TRUE
                      /\ current_version' =
                            Npm_parse_current(packages[i].package_name, r.stdout)
                      /\ available_version' = None
                      /\ UNCHANGED <<i, tallies, summary, pstate, answer>>
                 ELSE Npm_not_installed
            ELSE IF r.exc \in Npm_check_catches
                 THEN Npm_not_installed
                 ELSE Crash
    /\ typed' = NoRead
    /\ UNCHANGED <<generator, script, argv, npm_cmd, phases>>

\* check_package_installed_and_updatable: npm outdated -g <name>, and the
\* branch of install_all on what it returned
Npm_outdated ==
    /\ script = "npm" /\ pc = "outdated"
    /\ \E r \in SubprocessRun(NpmOutdatedOutputs(packages[i].package_name),
                               FALSE, FALSE) :
         /\ Call(i, NpmOutdatedCmd(npm_cmd), r,
                 Npm_name_in(packages[i].package_name, r.stdout))
         /\ IF r.exc = "none"
            THEN LET avail == IF Npm_name_reported(packages[i].package_name, r)
                              THEN Npm_parse_available(packages[i].package_name,
                                                       r.stdout)
                              ELSE None
                 IN  /\ available_version' = avail
                     /\ pstate' = [pstate EXCEPT ![i] = PackageState(TRUE, avail)]
                     /\ IF PackageState(TRUE, avail) = "InstalledUpdateAvailable"
                        THEN /\ pc' = "prompt"
                             /\ UNCHANGED <<i, tallies, summary>>
                        ELSE RecordAndContinue("skipped")
                     /\ UNCHANGED <<is_installed, current_version, answer>>
            ELSE IF r.exc \in Npm_check_catches
                 THEN Npm_not_installed
                 ELSE Crash
    /\ typed' = NoRead
    /\ UNCHANGED <<generator, script, argv, npm_cmd, phases>>

\* prompt_user_for_package_update: one input() of its while True loop, and the
\* branch of install_all when it returns False
Npm_prompt_user_for_package_update ==
    /\ script = "npm" /\ pc = "prompt"
    /\ \E ev \in Stdin :
         /\ typed' = ev
         /\ IF PromptAnswer(ev) = "raise"
            THEN Crash
            ELSE IF PromptAnswer(ev) = "no"
            THEN /\ answer' = [answer EXCEPT ![i] = "no"]
                 /\ RecordAndContinue("skipped")
                 /\ UNCHANGED <<locals, pstate>>
            ELSE IF PromptAnswer(ev) = "yes"
            THEN /\ answer' = [answer EXCEPT ![i] = "yes"]
                 /\ pc' = "upgrade"
                 /\ UNCHANGED <<i, locals, tallies, summary, pstate>>
            ELSE /\ pc' = "prompt"
                 /\ UNCHANGED <<i, locals, tallies, summary, pstate, answer>>
    /\ UNCHANGED <<generator, script, argv, npm_cmd, phases, calls>>

\* upgrade_package, and the tally install_all puts the package in
Npm_upgrade_package ==
    /\ script = "npm" /\ pc = "upgrade"
    /\ \E r \in SubprocessRun({<<>>}, FALSE, TRUE) :
         /\ Call(i, NpmUpdateCmd(npm_cmd), r, FALSE)
         /\ RecordAndContinue(IF ActionOk(r) THEN "upgraded" ELSE "failed")
    /\ typed' = NoRead
    /\ UNCHANGED <<generator, script, argv, locals, npm_cmd, phases, pstate, answer>>

\* install_package, and the tally install_all puts the package in
Npm_install_package ==
    /\ script = "npm" /\ pc = "install"
    /\ \E r \in SubprocessRun({<<>>}, FALSE, TRUE) :
         /\ Call(i, NpmInstallCmd(npm_cmd), r, FALSE)
         /\ RecordAndContinue(IF ActionOk(r) THEN "installed" ELSE "failed")
    /\ typed' = NoRead
    /\ UNCHANGED <<generator, script, argv, locals, npm_cmd, phases, pstate, answer>>

NpmNext ==
    \/ Npm_get_npm_command
    \/ Npm_get_npm_command_fallback
    \/ Npm_check_node_version
    \/ Npm_check_npm_available
    \/ Npm_confirm_proceed
    \/ Npm_update_npm_cache
    \/ Npm_list
    \/ Npm_outdated
    \/ Npm_prompt_user_for_package_update
    \/ Npm_upgrade_package
    \/ Npm_install_package

\* mutation: the arguments are not appended to the command
ChildCmd_forwards_nothing(path, args) == <<"python", path>>

(***************************************************************************)
(* main.py: the orchestrator                                               *)
(***************************************************************************)
\* cmd = [sys.executable, str(script_path)] + args
ChildCmd(path, args) == <<"python", path>> \o args

\* mutation: a child that ran into the timeout counts as a success
Main_run_script_timeout_is_success(r) ==
    r.exc = "TimeoutExpired" \/ (r.exc = "none" /\ r.returncode = 0)

\* mutation: the exit code of the child is not looked at
Main_run_script_ignores_exit_code(r) == r.exc = "none"

\* run_script: True iff the child was spawned and exited with code 0 within
\* the timeout; TimeoutExpired, KeyboardInterrupt and every other Exception
\* (a child that cannot be spawned) are caught and give False
Main_run_script(r) == r.exc = "none" /\ r.returncode = 0

\* what subprocess.run of a child script, with the 1 hour timeout, can do
ChildResults ==
    SubprocessRun({<<>>}, FALSE, TRUE)
    \cup {[Raised("KeyboardInterrupt") EXCEPT !.timeout = TRUE]}

\* show_summary(winget_success, npm_success)
Main_show_summary(ws, ns) ==
    [winget_success |-> ws, npm_success |-> ns,
     total_success |-> (IF ws THEN 1 ELSE 0) + (IF ns THEN 1 ELSE 0)]

\* mutation: the skipped phase 2 keeps the initial npm_success = True
Main_phase2_skipped_keeps_default(ws) ==
    /\ winget_success' = ws
    /\ IF "--skip-npm" \notin argv
       THEN /\ pc' = "prompt_phase2"
            /\ UNCHANGED <<npm_success, summary>>
       ELSE /\ npm_success' = npm_success
            /\ summary' = <<Main_show_summary(ws, npm_success)>>
            /\ pc' = "done"

\* install_all from "# Phase 2: NPM Installer" on, up to the next prompt;
\* ws is the result of phase 1
Main_phase2(ws) ==
    /\ winget_success' = ws
    /\ IF "--skip-npm" \notin argv
       THEN /\ pc' = "prompt_phase2"
            /\ UNCHANGED <<npm_success, summary>>
       ELSE /\ npm_success' = FALSE
            /\ summary' = <<Main_show_summary(ws, FALSE)>>
            /\ pc' = "done"

\* install_all after phase 2 ended with result ns: the final summary
Main_finish(ns) ==
    /\ npm_success' = ns
    /\ summary' = <<Main_show_summary(winget_success, ns)>>
    /\ pc' = "done"
    /\ UNCHANGED winget_success

\* main(): the help text, or install_all up to the first prompt:
\* check_scripts_exist, then phase 1 unless --skip-winget
Main_main ==
    /\ script = "main" /\ pc = "main"
    /\ IF "--help" \in argv \/ "-h" \in argv
       THEN pc' = "done" /\ UNCHANGED <<phases, summary>>
       ELSE \E winget_script_exists, npm_script_exists \in BOOLEAN :
              IF ~(winget_script_exists /\ npm_script_exists)
              THEN pc' = "done" /\ UNCHANGED <<phases, summary>>
              ELSE IF "--skip-winget" \notin argv
                   THEN /\ pc' = "prompt_phase1"
                        /\ UNCHANGED <<phases, summary>>
                   ELSE Main_phase2(FALSE)
    /\ typed' = NoRead
    /\ UNCHANGED <<generator, script, argv, i, locals, tallies, npm_cmd, calls, pstate,
                   answer>>

\* prompt_user_continue("Phase 1 ..."): one input() of its while True loop
Main_prompt_phase1 ==
    /\ script = "main" /\ pc = "prompt_phase1"
    /\ \E ev \in Stdin :
         /\ typed' = ev
         /\ IF PromptAnswer(ev) = "raise"
            THEN pc' = "crashed" /\ UNCHANGED <<phases, summary>>
            ELSE IF PromptAnswer(ev) = "no"
            THEN Main_phase2(FALSE)
            ELSE IF PromptAnswer(ev) = "yes"
            THEN pc' = "run_phase1" /\ UNCHANGED <<phases, summary>>
            ELSE pc' = "prompt_phase1" /\ UNCHANGED <<phases, summary>>
    /\ UNCHANGED <<generator, script, argv, i, locals, tallies, npm_cmd, calls, pstate,
                   answer>>

\* run_script(self.winget_script, "Winget Installer", winget_args)
Main_run_phase1 ==
    /\ script = "main" /\ pc = "run_phase1"
    /\ \E r \in ChildResults :
         /\ Call(0, ChildCmd("winget_dev_installer.py",
                             IF "--skip-winget-search" \in argv
                             THEN <<"--skip-search">> ELSE <<>>), r, FALSE)
         /\ Main_phase2(Main_run_script(r))
    /\ typed' = NoRead
    /\ UNCHANGED <<generator, script, argv, i, locals, tallies, npm_cmd, pstate, answer>>

\* prompt_user_continue("Phase 2 ..."): one input() of its while True loop
Main_prompt_phase2 ==
    /\ script = "main" /\ pc = "prompt_phase2"
    /\ \E ev \in Stdin :
         /\ typed' = ev
         /\ IF PromptAnswer(ev) = "raise"
            THEN pc' = "crashed" /\ UNCHANGED <<phases, summary>>
            ELSE IF PromptAnswer(ev) = "no"
            THEN Main_finish(FALSE)
            ELSE IF PromptAnswer(ev) = "yes"
            THEN pc' = "run_phase2" /\ UNCHANGED <<phases, summary>>
            ELSE pc' = "prompt_phase2" /\ UNCHANGED <<phases, summary>>
    /\ UNCHANGED <<generator, script, argv, i, locals, tallies, npm_cmd, calls, pstate,
                   answer>>

\* run_script(self.npm_script, "NPM Installer", npm_args), then show_summary
Main_run_phase2 ==
    /\ script = "main" /\ pc = "run_phase2"
    /\ \E r \in ChildResults :
         /\ Call(0, ChildCmd("npm_dev_installer.py",
                             IF "--show-npm-categories" \in argv
                             THEN <<"--show-categories">> ELSE <<>>), r, FALSE)
         /\ Main_finish(Main_run_script(r))
    /\ typed' = NoRead
    /\ UNCHANGED <<generator, script, argv, i, locals, tallies, npm_cmd, pstate, answer>>

MainNext ==
    \/ Main_main
    \/ Main_prompt_phase1
    \/ Main_run_phase1
    \/ Main_prompt_phase2
    \/ Main_run_phase2

(***************************************************************************)
(* setup_profile.py: the fastfetch status-file generator                   *)
(*                                                                         *)
(* A file is the sequence of its code units: an ASCII character stands for *)
(* its byte, "BOM" for the UTF-8 byte order mark EF BB BF, "BAD" for a     *)
(* byte sequence that is not valid UTF-8 (a UTF-16 or ANSI file).  The     *)
(* three generated texts are shortened to a few characters; they keep what *)
(* the code depends on: several lines, and the marker inside the snippet.  *)
(***************************************************************************)
FileNames == {"ascii.txt", "config.jsonc", "ps_profile", "default_profile"}

\* os.path.exists(path) is False
Absent == <<"ABSENT">>

\* ascii_content = r'''...'''.strip()
ascii_content == <<"$","1">> \o Nl \o <<"$","2">>

\* json_content = f'''...'''.strip()
json_content == <<"{">> \o Nl \o <<"a">> \o Nl \o <<"}">>

\* the marker looked for in the profile
Marker == <<"f","a","s","t","f","e","t","c","h"," ","-","c">>

\* profile_content_to_add = f'''...'''.strip(): a comment line, the line
\* fastfetch -c "<config path>", the oh-my-posh line
profile_content_to_add ==
    <<"#">> \o Nl \o Marker \o Sp \o <<"j">> \o Nl \o <<"o">>

\* text-mode read (newline=None): "\r\n" and a lone "\r" become "\n"
RECURSIVE UniversalNewlines(_)
UniversalNewlines(t) ==
    IF t = <<>> THEN <<>>
    ELSE IF Head(t) = "\r"
         THEN <<"\n">> \o UniversalNewlines(
                  IF Len(t) > 1 /\ t[2] = "\n" THEN SubSeq(t, 3, Len(t)) ELSE Tail(t))
         ELSE <<Head(t)>> \o UniversalNewlines(Tail(t))

\* text-mode write (newline=None): every "\n" becomes os.linesep
RECURSIVE TranslateNewlines(_, _)
TranslateNewlines(t, sep) ==
    IF t = <<>> THEN <<>>
    ELSE (IF Head(t) = "\n" THEN sep ELSE <<Head(t)>>)
         \o TranslateNewlines(Tail(t), sep)

\* the bytes can be decoded as UTF-8 (with or without signature)
Decodable(b) == \A n \in 1..Len(b) : b[n] # "BAD"

\* open(path, 'r', encoding=enc).read() of decodable bytes: utf-8-sig drops
\* one byte order mark at the start, utf-8 keeps it as U+FEFF
ReadText(b, enc) ==
    UniversalNewlines(IF enc = "utf-8-sig" /\ b # <<>> /\ Head(b) = "BOM"
                      THEN Tail(b) ELSE b)

\* open(path, 'w', encoding=enc).write(t): utf-8-sig writes the byte order
\* mark first, also for the empty text
WriteText(t, enc) ==
    (IF enc = "utf-8-sig" THEN <<"BOM">> ELSE <<>>) \o TranslateNewlines(t, linesep)

\* what powershell -NoProfile -Command "Write-Output $PROFILE" may print
ProfilePathOutputs == { <<"p","s","\n">>, <<"\n">> }

\* the fallback os.path.join(expanduser('~'), "Documents", "WindowsPowerShell", ...)
DefaultProfilePath == "default_profile"

\* get_powershell_profile_path on the result r of the powershell command:
\* the stripped output, or the default path on CalledProcessError,
\* FileNotFoundError and on an empty output (ValueError)
get_powershell_profile_path(r) ==
    IF r.exc = "none" /\ Strip(r.stdout) # <<>>
    THEN "ps_profile"
    ELSE DefaultProfilePath

\* mutation: the marker is not looked for
MarkerAbsent_always(existing_content) == TRUE

\* 'fastfetch -c' not in existing_content
MarkerAbsent(existing_content) == ~Contains(existing_content, Marker)

\* new_content = profile_content_to_add + '\n\n' + existing_content
new_content(existing_content) ==
    profile_content_to_add \o Nl \o Nl \o existing_content

\* what this run leaves untouched of the installers' state
installer_state ==
    <<script, argv, i, locals, tallies, summary, npm_cmd, phases, calls, typed,
      pstate, answer>>

\* mutation: an existing content file is kept
WriteContentFile_keeps_existing(f, t) ==
    files' = [files EXCEPT ![f] = IF files[f] = Absent THEN WriteText(t, "utf-8")
                                  ELSE files[f]]

\* with open(path, 'w', encoding='utf-8') as f: f.write(t)
WriteContentFile(f, t) ==
    files' = [files EXCEPT ![f] = WriteText(t, "utf-8")]

\* main(), steps 1-3: os.makedirs(config_dir, exist_ok=True), write ascii.txt
Profile_write_ascii ==
    /\ script = "profile" /\ pc = "main"
    /\ WriteContentFile("ascii.txt", ascii_content)
    /\ pc' = "write_config"
    /\ UNCHANGED <<installer_state, linesep, profile_path, runs, first>>

\* main(), step 4: write config.jsonc
Profile_write_config ==
    /\ script = "profile" /\ pc = "write_config"
    /\ WriteContentFile("config.jsonc", json_content)
    /\ pc' = "get_powershell_profile_path"
    /\ UNCHANGED <<installer_state, linesep, profile_path, runs, first>>

\* main(), step 5: profile_path = get_powershell_profile_path()
\* (subprocess.run with check=True and no timeout)
Profile_get_powershell_profile_path ==
    /\ script = "profile" /\ pc = "get_powershell_profile_path"
    /\ \E r \in SubprocessRun(ProfilePathOutputs, TRUE, FALSE) :
         profile_path' = get_powershell_profile_path(r)
    /\ pc' = "create_profile"
    /\ UNCHANGED <<installer_state, files, linesep, runs, first>>

\* os.makedirs(profile_dir); if not os.path.exists(profile_path): write ''
Profile_create_profile ==
    /\ script = "profile" /\ pc = "create_profile"
    /\ files' = IF files[profile_path] = Absent
                THEN [files EXCEPT ![profile_path] = WriteText(<<>>, "utf-8-sig")]
                ELSE files
    /\ pc' = "update_profile"
    /\ UNCHANGED <<installer_state, linesep, profile_path, runs, first>>

\* read the profile (utf-8-sig, and utf-8 on UnicodeDecodeError, which fails
\* on the same bytes and is not caught), prepend the snippet when the marker
\* is absent, print "Setup complete!": the run is over
Profile_update_profile ==
    /\ script = "profile" /\ pc = "update_profile"
    /\ IF ~Decodable(files[profile_path])
       THEN /\ pc' = "crashed"
            /\ UNCHANGED <<files, runs, first>>
       ELSE LET existing_content == ReadText(files[profile_path], "utf-8-sig") IN
            /\ files' = IF MarkerAbsent(existing_content)
                        THEN [files EXCEPT ![profile_path] =
                                 WriteText(new_content(existing_content), "utf-8-sig")]
                        ELSE files
            /\ runs' = runs + 1
            /\ first' = IF runs = 0
                        THEN [files |-> files', path |-> profile_path]
                        ELSE first
            /\ pc' = "done"
    /\ UNCHANGED <<installer_state, linesep, profile_path>>

\* a content file after somebody edited it by hand
Edited == <<"e","d","i","t">>

\* the generator is started again (python setup_profile.py); before that the
\* user may have edited the generated content files
Profile_run_again ==
    /\ script = "profile" /\ pc = "done" /\ runs < MaxRuns
    /\ \E edited \in SUBSET {"ascii.txt", "config.jsonc"} :
         files' = [f \in FileNames |-> IF f \in edited THEN Edited ELSE files[f]]
    /\ pc' = "main"
    /\ profile_path' = "unset"
    /\ UNCHANGED <<installer_state, linesep, runs, first>>

ProfileNext ==
    \/ Profile_write_ascii
    \/ Profile_write_config
    \/ Profile_get_powershell_profile_path
    \/ Profile_create_profile
    \/ Profile_update_profile
    \/ Profile_run_again

(***************************************************************************)
(* Specification                                                           *)
(***************************************************************************)
WingetFlags == {"--skip-search", "--help"}
NpmFlags == {"--show-categories", "--help"}

MainFlags == {"--skip-winget-search", "--show-npm-categories", "--skip-winget",
              "--skip-npm", "--help"}

Flags(sc) ==
    IF sc = "winget" THEN WingetFlags ELSE IF sc = "npm" THEN NpmFlags ELSE MainFlags

Init ==
    /\ script \in {"winget", "npm", "main"}
    /\ argv \in SUBSET Flags(script)
    /\ pc = "main"
    /\ i = 1
    /\ is_installed = FALSE
    /\ current_version = None
    /\ available_version = None
    /\ successful_installs = <<>>
    /\ successful_upgrades = <<>>
    /\ failed_installs = <<>>
    /\ skipped_packages = <<>>
    /\ summary = <<>>
    /\ npm_cmd = "unset"
    /\ winget_success = TRUE
    /\ npm_success = TRUE
    /\ calls = <<>>
    /\ typed = NoRead
    /\ pstate = [k \in Indices |-> "unknown"]
    /\ answer = [k \in Indices |-> "none"]
    /\ files = [f \in FileNames |-> Absent]
    /\ linesep = <<"\n">>
    /\ profile_path = "unset"
    /\ runs = 0
    /\ first = [files |-> files, path |-> "unset"]

Next == WingetNext \/ NpmNext \/ MainNext

Spec == Init /\ [][Next]_vars

\* the startup files a run may find: none, empty, text without the marker
\* (LF, CRLF, with signature), other text holding the marker, the snippet as
\* a run on either platform writes it, the snippet pasted twice, and a file
\* that is not UTF-8
ProfileContents ==
    { Absent,
      <<>>,
      <<"x","\n","y">>,
      <<"x","\r","\n","y">>,
      <<"BOM","x">>,
      <<"#"," ">> \o Marker,
      <<"BOM">> \o TranslateNewlines(new_content(<<>>), <<"\n">>),
      <<"BOM">> \o TranslateNewlines(new_content(<<>>), <<"\r","\n">>),
      profile_content_to_add \o Nl \o profile_content_to_add,
      <<"BAD","x">> }

\* os.linesep: Windows, POSIX
LineSeps == { <<"\r","\n">>, <<"\n">> }

\* the generator is started for the first time on some file system
ProfileInit ==
    /\ script = "profile"
    /\ argv = {}
    /\ pc = "main"
    /\ i = 1
    /\ is_installed = FALSE
    /\ current_version = None
    /\ available_version = None
    /\ successful_installs = <<>>
    /\ successful_upgrades = <<>>
    /\ failed_installs = <<>>
    /\ skipped_packages = <<>>
    /\ summary = <<>>
    /\ npm_cmd = "unset"
    /\ winget_success = TRUE
    /\ npm_success = TRUE
    /\ calls = <<>>
    /\ typed = NoRead
    /\ pstate = [k \in Indices |-> "unknown"]
    /\ answer = [k \in Indices |-> "none"]
    /\ linesep \in LineSeps
    /\ \E a, c \in {Absent, Edited} : \E p, d \in ProfileContents :
         files = [f \in FileNames |->
                    IF f = "ascii.txt" THEN a
                    ELSE IF f = "config.jsonc" THEN c
                    ELSE IF f = "ps_profile" THEN p ELSE d]
    /\ profile_path = "unset"
    /\ runs = 0
    /\ first = [files |-> files, path |-> "unset"]

ProfileSpec == ProfileInit /\ [][ProfileNext]_vars

(***************************************************************************)
(* setup_dev_env.py: the unified setup script (DevEnvInstaller)            *)
(***************************************************************************)
Managers == {"winget", "npm"}

\* the position step of the part of the run that works with the manager m
DevEnvAt(m, step) == m \o "_" \o step

DevEnvLoopSteps == {"list", "update_query", "confirm", "upgrade", "install"}

\* self.winget_packages / self.npm_packages, by identifier
DevEnv_packages(m) ==
    IF m = "winget" THEN SubSeq(DevEnv_winget_ids, 1, NumPackages)
    ELSE SubSeq(DevEnv_npm_package_names, 1, NumPackages)

\* the command lines of _install_winget_package and _install_npm_package (the
\* package identifier is left out, the call log names the package)
DevEnvVersionCmd(m) == <<m, "--version">>
DevEnvListCmd(m) ==
    IF m = "winget" THEN <<"winget", "list", "--id", "--exact">>
    ELSE <<"npm", "list", "-g">>
DevEnvUpdateQueryCmd(m) ==
    IF m = "winget" THEN <<"winget", "upgrade", "--id", "--exact">>
    ELSE <<"npm", "outdated", "-g">>
DevEnvUpgradeCmd(m) ==
    IF m = "winget"
    THEN <<"winget", "upgrade", "--id", "--exact", "--accept-source-agreements",
           "--accept-package-agreements", "--silent">>
    ELSE <<"npm", "update", "-g">>
DevEnvInstallCmd(m) ==
    IF m = "winget"
    THEN <<"winget", "install", "--id", "--exact", "--accept-source-agreements",
           "--accept-package-agreements", "--silent">>
    ELSE <<"npm", "install", "-g">>

\* what a list or update query can print about the package id: nothing, or a
\* line that holds the identifier
DevEnvOutputs(id) == { <<>>, <<" ">> \o id \o <<" ","1",".","0","\n">> }

\* result.returncode == 0 and <identifier> in result.stdout
DevEnv_reported(id, r) == r.returncode = 0 /\ Contains(r.stdout, id)

\* Confirm.ask on the event ev that input() delivers: y is True, n is False
\* (after strip and lower), any other line asks again; an exception of input()
\* leaves Confirm.ask
ConfirmAsk(ev) ==
    IF ev.kind # "line" THEN ev.kind
    ELSE IF Lower(Strip(ev.text)) = <<"y">> THEN "yes"
    ELSE IF Lower(Strip(ev.text)) = <<"n">> THEN "no"
    ELSE "again"

\* except Exception of _install_winget_package / _install_npm_package: is the
\* exception named e caught?  KeyboardInterrupt derives from BaseException only.
DevEnv_caught(e) == e \in {"FileNotFoundError", "CalledProcessError", "EOFError"}

\* where the run goes when the loop over the packages of m is over or skipped
DevEnvAfter(m) == IF m = "winget" THEN DevEnvAt("npm", "check") ELSE "done"

\* the end of _install_*_package for the package at hand: the for loop takes
\* the next package, or the method returns
DevEnv_next_package(m) ==
    IF i < Len(DevEnv_packages(m))
    THEN i' = i + 1 /\ pc' = DevEnvAt(m, "list")
    ELSE i' = i /\ pc' = DevEnvAfter(m)

\* an exception e leaves the try block of _install_*_package
DevEnv_raise(m, e) ==
    IF DevEnv_caught(e) THEN DevEnv_next_package(m)
    ELSE i' = i /\ pc' = "crashed"

devenv_rest == <<generator, script, argv, locals, tallies, summary, npm_cmd,
                 phases, pstate, answer>>

\* run(): install_winget_packages(), then install_npm_packages()
DevEnv_run ==
    /\ script = "devenv" /\ pc = "main"
    /\ pc' = DevEnvAt("winget", "check")
    /\ typed' = NoRead
    /\ UNCHANGED <<devenv_rest, i, calls>>

\* install_winget_packages / install_npm_packages up to the loop:
\* if not self._check_command_available(m, "--version"): return
DevEnv_check_command_available(m) ==
    /\ script = "devenv" /\ pc = DevEnvAt(m, "check")
    /\ \E r \in SubprocessRun(VersionOutputs, TRUE, FALSE) :
         /\ Call(0, DevEnvVersionCmd(m), r, FALSE)
         /\ pc' = IF r.exc = "none" THEN DevEnvAt(m, "list") ELSE DevEnvAfter(m)
    /\ i' = 1
    /\ typed' = NoRead
    /\ UNCHANGED devenv_rest

\* _install_*_package: the list query and the branch on its result
DevEnv_list(m) ==
    /\ script = "devenv" /\ pc = DevEnvAt(m, "list")
    /\ LET id == DevEnv_packages(m)[i] IN
       \E r \in SubprocessRun(DevEnvOutputs(id), FALSE, FALSE) :
         /\ Call(i, DevEnvListCmd(m), r, Contains(r.stdout, id))
         /\ IF r.exc # "none" THEN DevEnv_raise(m, r.exc)
            ELSE /\ i' = i
                 /\ pc' = IF DevEnv_reported(id, r)
                          THEN DevEnvAt(m, "update_query")
                          ELSE DevEnvAt(m, "install")
    /\ typed' = NoRead
    /\ UNCHANGED devenv_rest

\* _install_*_package: the package is installed; the update query (winget
\* upgrade / npm outdated), then the prompt or the return
DevEnv_update_query(m) ==
    /\ script = "devenv" /\ pc = DevEnvAt(m, "update_query")
    /\ LET id == DevEnv_packages(m)[i] IN
       \E r \in SubprocessRun(DevEnvOutputs(id), FALSE, FALSE) :
         /\ Call(i, DevEnvUpdateQueryCmd(m), r, Contains(r.stdout, id))
         /\ IF r.exc # "none" THEN DevEnv_raise(m, r.exc)
            ELSE IF DevEnv_reported(id, r)
                 THEN i' = i /\ pc' = DevEnvAt(m, "confirm")
                 ELSE DevEnv_next_package(m)
    /\ typed' = NoRead
    /\ UNCHANGED devenv_rest

\* _install_*_package: one input() of Confirm.ask
DevEnv_confirm(m) ==
    /\ script = "devenv" /\ pc = DevEnvAt(m, "confirm")
    /\ \E ev \in Stdin :
         /\ typed' = ev
         /\ IF ConfirmAsk(ev) = "yes" THEN i' = i /\ pc' = DevEnvAt(m, "upgrade")
            ELSE IF ConfirmAsk(ev) = "no" THEN DevEnv_next_package(m)
            ELSE IF ConfirmAsk(ev) = "again" THEN i' = i /\ pc' = pc
            ELSE DevEnv_raise(m, ConfirmAsk(ev))
    /\ UNCHANGED <<devenv_rest, calls>>

\* _run_command(cmd, ...): subprocess.run with check=True; CalledProcessError
\* is caught and reported there, any other exception leaves _run_command.
\* The value is the exception that leaves, "none" if none does.
DevEnv_run_command(r) ==
    IF r.exc = "CalledProcessError" THEN "none" ELSE r.exc

\* _install_*_package: the user confirmed, the upgrade command is run
DevEnv_upgrade(m) ==
    /\ script = "devenv" /\ pc = DevEnvAt(m, "upgrade")
    /\ \E r \in SubprocessRun({<<>>}, TRUE, FALSE) :
         /\ Call(i, DevEnvUpgradeCmd(m), r, FALSE)
         /\ IF DevEnv_run_command(r) = "none" THEN DevEnv_next_package(m)
            ELSE DevEnv_raise(m, DevEnv_run_command(r))
    /\ typed' = NoRead
    /\ UNCHANGED devenv_rest

\* _install_*_package: the package is not installed, the install command is run
DevEnv_install(m) ==
    /\ script = "devenv" /\ pc = DevEnvAt(m, "install")
    /\ \E r \in SubprocessRun({<<>>}, TRUE, FALSE) :
         /\ Call(i, DevEnvInstallCmd(m), r, FALSE)
         /\ IF DevEnv_run_command(r) = "none" THEN DevEnv_next_package(m)
            ELSE DevEnv_raise(m, DevEnv_run_command(r))
    /\ typed' = NoRead
    /\ UNCHANGED devenv_rest

DevEnvNext ==
    \/ DevEnv_run
    \/ \E m \in Managers :
         \/ DevEnv_check_command_available(m)
         \/ DevEnv_list(m)
         \/ DevEnv_update_query(m)
         \/ DevEnv_confirm(m)
         \/ DevEnv_upgrade(m)
         \/ DevEnv_install(m)

\* the state when installer.run() is called
DevEnvInit ==
    /\ script = "devenv"
    /\ argv = {}
    /\ pc = "main"
    /\ i = 1
    /\ is_installed = FALSE
    /\ current_version = None
    /\ available_version = None
    /\ successful_installs = <<>>
    /\ successful_upgrades = <<>>
    /\ failed_installs = <<>>
    /\ skipped_packages = <<>>
    /\ summary = <<>>
    /\ npm_cmd = "unset"
    /\ winget_success = TRUE
    /\ npm_success = TRUE
    /\ calls = <<>>
    /\ typed = NoRead
    /\ pstate = [k \in Indices |-> "unknown"]
    /\ answer = [k \in Indices |-> "none"]
    /\ files = [f \in FileNames |-> Absent]
    /\ linesep = <<"\n">>
    /\ profile_path = "unset"
    /\ runs = 0
    /\ first = [files |-> files, path |-> "unset"]

DevEnvSpec == DevEnvInit /\ [][DevEnvNext]_vars

(***************************************************************************)
(* Reading the history                                                     *)
(***************************************************************************)
Installer == script \in {"winget", "npm"}

\* the sub-command of an external command: the word after the program name
SubCommand(c) == c.cmd[2]

\* the name of the sub-command that upgrades a package
UpgradeSub == IF script = "npm" THEN "update" ELSE "upgrade"

\* the commands run so far for package k
CallsOf(k) == {n \in 1..Len(calls) : calls[n].pkg = k}

InstallCalled(k) == \E n \in CallsOf(k) : SubCommand(calls[n]) = "install"
UpgradeCalled(k) == \E n \in CallsOf(k) : SubCommand(calls[n]) = UpgradeSub
SearchCalled(k) == \E n \in CallsOf(k) : SubCommand(calls[n]) = "search"

\* the install or upgrade action of upgrade_package / install_package
IsAction(c) ==
    c.cmd \in {WingetInstallCmd, WingetUpgradeCmd, NpmInstallCmd(npm_cmd),
               NpmUpdateCmd(npm_cmd)}
IsUpgradeAction(c) == c.cmd \in {WingetUpgradeCmd, NpmUpdateCmd(npm_cmd)}

ActionCalled(k) == \E n \in CallsOf(k) : IsAction(calls[n])
UpgradeActionCalled(k) == \E n \in CallsOf(k) : IsUpgradeAction(calls[n])
ActionSucceeded(k) == \E n \in CallsOf(k) : IsAction(calls[n]) /\ calls[n].result = "ok"
ActionFailed(k) == \E n \in CallsOf(k) : IsAction(calls[n]) /\ calls[n].result # "ok"

\* the pre-install search of package k exited 0 and named the identifier
SearchFound(k) ==
    \E n \in CallsOf(k) :
        SubCommand(calls[n]) = "search" /\ calls[n].result = "ok" /\ calls[n].named

\* the summary of the installer has been printed
SummaryPrinted == pc = "done" /\ summary # <<>>

\* the loop body of package k has run to its end
Finished(k) == Installer /\ (k < i \/ SummaryPrinted)

\* how often the display name of package k is in a tally
Count(t, k) == Cardinality({n \in 1..Len(t) : t[n] = packages[k].name})
In(t, k) == Count(t, k) > 0

\* package k is in the tally t and in no other (t is one of the four tallies)
OnlyIn(t, k) ==
    /\ Count(t, k) = 1
    /\ Count(successful_installs, k) + Count(successful_upgrades, k)
         + Count(failed_installs, k) + Count(skipped_packages, k) = 1

(***************************************************************************)
(* Claims                                                                  *)
(***************************************************************************)

C2_Stated ==
    \A k \in Indices :
        (Finished(k) /\ pstate[k] = "InstalledUpdateAvailable" /\ answer[k] = "yes")
            => /\ UpgradeActionCalled(k) /\ ~InstallCalled(k)
               /\ In(successful_upgrades, k)
               /\ ~In(successful_installs, k)

\* C2 amended: such a package gets the upgrade command (not install); its name
\* is recorded in the upgraded tally when the upgrade command exits 0 and in
\* the failed tally when it does not (non-zero exit, timeout, command not
\* found); it is never recorded in the installed tally.
C2_Amended ==
    \A k \in Indices :
        (Finished(k) /\ pstate[k] = "InstalledUpdateAvailable" /\ answer[k] = "yes")
            => /\ UpgradeActionCalled(k) /\ ~InstallCalled(k)
               /\ ActionSucceeded(k) => OnlyIn(successful_upgrades, k)
               /\ ActionFailed(k) => OnlyIn(failed_installs, k)
               /\ ActionSucceeded(k) \/ ActionFailed(k)
               /\ ~In(successful_installs, k)

\* an update was confirmed and the upgrade succeeded; another was confirmed
\* and its upgrade failed
C2_Witness ==
    /\ \E k \in Indices :
         /\ Finished(k) /\ pstate[k] = "InstalledUpdateAvailable"
         /\ answer[k] = "yes" /\ ActionSucceeded(k)
    /\ \E k \in Indices :
         /\ Finished(k) /\ pstate[k] = "InstalledUpdateAvailable"
         /\ answer[k] = "yes" /\ ActionFailed(k)

\* C3 as stated: for every package reported InstalledUpdateAvailable for which
\* the user answers no, neither the install nor the upgrade sub-command of the
\* package manager is invoked for it at any point of its processing, and its
\* name is recorded in the skipped tally.
C3_Stated ==
    \A k \in Indices :
        (Finished(k) /\ pstate[k] = "InstalledUpdateAvailable" /\ answer[k] = "no")
            => /\ ~InstallCalled(k)
               /\ ~UpgradeCalled(k)
               /\ OnlyIn(skipped_packages, k)

\* C4 as stated: for every package reported InstalledUpToDate the processor
\* makes no install call and no upgrade call for it and records its name in
\* the skipped tally.
C4_Stated ==
    \A k \in Indices :
        (Finished(k) /\ pstate[k] = "InstalledUpToDate")
            => /\ ~InstallCalled(k)
               /\ ~UpgradeCalled(k)
               /\ OnlyIn(skipped_packages, k)

\* C5: when the install or upgrade action of a package fails (command not
\* found, non-zero exit, timeout), exactly that package's name is in the failed
\* tally, once, and in no other tally, and the failure does not abort the loop:
\* the loop body of that package ends and control is at a later package or at
\* the printed summary, which counts every package of the list.
C5_FailedActionIsRecordedAndLoopGoesOn ==
    /\ \A k \in Indices :
         ActionFailed(k)
            => /\ Finished(k)
               /\ OnlyIn(failed_installs, k)
               /\ k < Len(packages) => (i > k /\ pc # "main")
               /\ \A n \in 1..Len(failed_installs) :
                    failed_installs[n] = packages[k].name
                    \/ \E j \in Indices \ {k} :
                         /\ failed_installs[n] = packages[j].name
                         /\ (ActionFailed(j) \/ ~ActionCalled(j))
    /\ (SummaryPrinted /\ \E k \in Indices : ActionFailed(k))
            => /\ summary[1].total_processed = Len(packages)
               /\ Len(successful_installs) + Len(successful_upgrades)
                    + Len(failed_installs) + Len(skipped_packages) = Len(packages)

\* the action of the first package timed out, that of a later package could
\* not be started, and the run went on to the summary
C5_Witness ==
    /\ SummaryPrinted
    /\ \E n \in CallsOf(1) : IsAction(calls[n]) /\ calls[n].result = "TimeoutExpired"
    /\ \E k \in Indices \ {1} :
         \E n \in CallsOf(k) : IsAction(calls[n]) /\ calls[n].result = "FileNotFoundError"
    /\ Len(failed_installs) >= 2

\* C6 as stated: every failure of an external call made while processing a
\* package, the install-state query and the update-availability query
\* included, is caught inside that package's step: no exception of such a call
\* ends the run.
C6_Stated ==
    ~ /\ Installer
      /\ pc = "crashed"
      /\ calls # <<>>
      /\ calls[Len(calls)].pkg \in Indices
      /\ calls[Len(calls)].result \notin {"ok", "nonzero"}
      /\ typed = NoRead

\* C7 as stated: when every external package-manager call succeeds (returns
\* with exit code 0) and every package is reported not installed, the run ends
\* with all N names in installed, none elsewhere, and the summary reports N
\* successful operations out of N packages.
AllCallsSucceeded == \A n \in 1..Len(calls) : calls[n].result = "ok"
AllNotInstalled == \A k \in Indices : pstate[k] = "NotInstalled"
AllInstalled ==
    /\ Len(successful_installs) = Len(packages)
    /\ \A k \in Indices : OnlyIn(successful_installs, k)
    /\ successful_upgrades = <<>>
    /\ skipped_packages = <<>>
    /\ failed_installs = <<>>
    /\ summary[1].total_successful = Len(packages)
    /\ summary[1].total_processed = Len(packages)

C7_Stated ==
    (Installer /\ SummaryPrinted /\ AllCallsSucceeded /\ AllNotInstalled)
        => AllInstalled

\* C7 amended: when every external call returns with exit code 0, every package
\* is reported not installed and, in the winget installer run without
\* --skip-search, the output of every pre-install search names the package
\* identifier, the run ends with all N names in installed, none elsewhere, and
\* the summary reports N successful operations out of N packages.
C7_Amended ==
    (/\ Installer /\ SummaryPrinted /\ AllCallsSucceeded /\ AllNotInstalled
     /\ \A k \in Indices : SearchCalled(k) => SearchFound(k))
        => AllInstalled

\* a winget run with searches in which every call succeeded and every package
\* was found not installed
C7_Witness ==
    /\ script = "winget" /\ "--skip-search" \notin argv
    /\ SummaryPrinted /\ AllCallsSucceeded /\ AllNotInstalled
    /\ \A k \in Indices : SearchFound(k)
\* text is tok, in any letter case, with nothing but whitespace around it
IsToken(text, tok) ==
    \E a \in 1..(Len(text) + 1) :
        LET b == a + Len(tok) - 1 IN
        /\ b <= Len(text)
        /\ \A j \in 1..Len(tok) : LowerChar(text[a + j - 1]) = tok[j]
        /\ \A j \in 1..Len(text) : (j < a \/ j > b) => IsSpace(text[j])

SaysYes(text) == IsToken(text, <<"y">>) \/ IsToken(text, <<"y","e","s">>)
SaysNo(text) == IsToken(text, <<"n">>) \/ IsToken(text, <<"n","o">>)

\* the lines that can be typed and are a yes token, and those that are a no token
YesLines == {l \in Lines : SaysYes(l)}
NoLines == {l \in Lines : SaysNo(l)}

\* the process is blocked in the input() of a yes/no prompt
AtPrompt == pc \in {"prompt", "confirm", "prompt_phase1", "prompt_phase2"}

\* this step, the prompt returned True: the confirmed operation is next
PromptReturnedTrue ==
    pc' = CASE pc = "prompt" -> "upgrade"
            [] pc = "confirm" -> "update_npm_cache"
            [] pc = "prompt_phase1" -> "run_phase1"
            [] pc = "prompt_phase2" -> "run_phase2"
            [] OTHER -> "none"

\* this step, the prompt returned False: the package is skipped, the
\* installation is cancelled, or the phase is marked not successful
PromptReturnedFalse ==
    CASE pc = "prompt" ->
            /\ answer'[i] = "no"
            /\ skipped_packages' = Append(skipped_packages, packages[i].name)
            /\ pc' \in {"list", "done"}
      [] pc = "confirm" -> pc' = "done"
      [] pc = "prompt_phase1" ->
            ~winget_success' /\ pc' \in {"prompt_phase2", "done"}
      [] pc = "prompt_phase2" -> ~npm_success' /\ pc' = "done"
      [] OTHER -> FALSE

\* this step, the prompt took no decision and asks again
PromptAsksAgain ==
    /\ pc' = pc
    /\ UNCHANGED <<generator, script, argv, i, locals, tallies, summary, npm_cmd, phases,
                   calls, pstate, answer>>

\* C8: every yes/no prompt (update prompt of both installers, confirmation of
\* the npm category listing, phase prompts of the orchestrator) returns yes
\* exactly on "y"/"yes" and no exactly on "n"/"no", in any letter case and
\* after trimming; on any other line it decides nothing and prompts again; it
\* returns only on a valid token or an interrupt.
C8_PromptTokens ==
    [][ AtPrompt =>
          LET line == typed'.kind = "line"
              yes  == line /\ typed'.text \in YesLines
              no   == line /\ typed'.text \in NoLines
          IN  /\ line =>
                   /\ yes <=> PromptReturnedTrue
                   /\ no <=> PromptReturnedFalse
                   /\ (~yes /\ ~no) <=> PromptAsksAgain
              /\ (PromptReturnedTrue \/ PromptReturnedFalse) =>
                   \/ typed'.kind = "KeyboardInterrupt"
                   \/ yes \/ no
      ]_vars

\* " Yes " was typed at an update prompt and the upgrade is next; before that
\* the prompt had asked again
C8_Witness ==
    /\ pc = "upgrade"
    /\ typed = [kind |-> "line", text |-> <<" ","Y","e","s"," ">>]

\* C9: an interrupt received while a prompt is blocked on standard input is
\* caught and treated as the answer no, and never ends the process with an
\* error: at an update prompt the package goes to the skipped tally and the
\* loop goes on to the next package (or to the summary); at a phase prompt of
\* the orchestrator the phase is recorded as not successful and the run goes
\* on to the next phase or to the summary; at the confirmation of the npm
\* category listing the installation is cancelled as on the answer no.
C9_InterruptIsNo ==
    [][ (AtPrompt /\ typed'.kind = "KeyboardInterrupt") =>
          /\ pc' # "crashed"
          /\ PromptReturnedFalse
          /\ pc = "prompt" =>
               /\ successful_installs' = successful_installs
               /\ successful_upgrades' = successful_upgrades
               /\ failed_installs' = failed_installs
               /\ IF i < Len(packages)
                  THEN pc' = "list" /\ i' = i + 1
                  ELSE pc' = "done" /\ summary' # <<>>
          /\ pc = "prompt_phase1" =>
               IF "--skip-npm" \notin argv
               THEN pc' = "prompt_phase2" /\ summary' = <<>>
               ELSE pc' = "done" /\ summary' # <<>> /\ ~summary'[1].winget_success
          /\ pc = "prompt_phase2" =>
               /\ summary' # <<>>
               /\ ~summary'[1].npm_success
               /\ summary'[1].winget_success = winget_success
      ]_vars

\* the update prompt of the first package was interrupted: the package is
\* skipped and the second package is being processed
C9_Witness ==
    /\ Installer /\ pc = "list" /\ i = 2
    /\ typed.kind = "KeyboardInterrupt"
    /\ OnlyIn(skipped_packages, 1)

\* C10: in the orchestrator a phase-1 child that times out, exits non-zero or
\* cannot be spawned is recorded as a phase-1 failure and does not abort
\* phase 2: phase 2 is prompted for (unless --skip-npm), its child is run when
\* the prompt is confirmed, and the summary reports phase 1 as not successful.
ChildFailures == {"TimeoutExpired", "nonzero", "FileNotFoundError"}

C10_Phase1FailureKeepsPhase2 ==
    [][ /\ (pc = "run_phase1" /\ pc' # pc
              /\ calls'[Len(calls')].result \in ChildFailures) =>
               /\ ~winget_success'
               /\ IF "--skip-npm" \notin argv
                  THEN pc' = "prompt_phase2"
                  ELSE pc' = "done" /\ summary' # <<>>
                       /\ ~summary'[1].winget_success
        /\ (pc = "prompt_phase2" /\ typed'.kind = "line" /\ SaysYes(typed'.text)) =>
               pc' = "run_phase2"
        /\ (pc = "run_phase2" /\ pc' # pc) =>
               /\ Len(calls') = Len(calls) + 1
               /\ calls'[Len(calls')].cmd[2] = "npm_dev_installer.py"
               /\ pc' = "done" /\ summary' # <<>>
               /\ summary'[1].winget_success = winget_success
               /\ summary'[1].npm_success = (calls'[Len(calls')].result = "ok")
      ]_vars

\* the phase-1 child timed out, phase 2 was confirmed and its child has run
C10_Witness ==
    /\ script = "main" /\ pc = "done" /\ Len(calls) = 2
    /\ calls[1].result = "TimeoutExpired"
    /\ calls[2].cmd[2] = "npm_dev_installer.py"
    /\ ~summary[1].winget_success

\* a child script named f has been run by the orchestrator, as the log says
ScriptCalledIn(log, f) == \E n \in 1..Len(log) : log[n].cmd[2] = f
\* ... and it was spawned and exited with code 0 within the timeout
ScriptSucceededIn(log, f) ==
    \E n \in 1..Len(log) : log[n].cmd[2] = f /\ log[n].result = "ok"

\* the orchestrator's install_all was entered (no help was asked for)
OrchestratorRan == script = "main" /\ "--help" \notin argv

\* C11 as stated: every run of the orchestrator's install_all ends by printing
\* the final two-phase summary, whatever the flags, the answers and the outcome
\* of the earlier steps, the check that both installer scripts exist included:
\* once install_all has returned, the summary has been printed.
C11_Stated == (OrchestratorRan /\ pc = "done") => summary # <<>>

\* C12: with --skip-winget (resp. --skip-npm) the phase is omitted: its prompt
\* is never shown, its child script is never run, and a printed summary reports
\* it as not successful; the other phase is unaffected: when it is not skipped
\* itself, a summary is printed only after its prompt was answered or its child
\* ran, and reports it successful exactly when its child exited with code 0.
C12_SkippedPhaseIsOmitted ==
    script = "main" =>
      /\ "--skip-winget" \in argv =>
           /\ pc \notin {"prompt_phase1", "run_phase1"}
           /\ ~ScriptCalledIn(calls, "winget_dev_installer.py")
           /\ summary # <<>> => ~summary[1].winget_success
           /\ ("--skip-npm" \notin argv /\ summary # <<>>) =>
                /\ typed.kind # "none" \/ ScriptCalledIn(calls, "npm_dev_installer.py")
                /\ summary[1].npm_success
                     = ScriptSucceededIn(calls, "npm_dev_installer.py")
      /\ "--skip-npm" \in argv =>
           /\ pc \notin {"prompt_phase2", "run_phase2"}
           /\ ~ScriptCalledIn(calls, "npm_dev_installer.py")
           /\ summary # <<>> => ~summary[1].npm_success
           /\ ("--skip-winget" \notin argv /\ summary # <<>>) =>
                /\ typed.kind # "none" \/ ScriptCalledIn(calls, "winget_dev_installer.py")
                /\ summary[1].winget_success
                     = ScriptSucceededIn(calls, "winget_dev_installer.py")

\* phase 1 was skipped by its flag, phase 2 ran and succeeded, and the summary
\* says so
C12_Witness ==
    /\ script = "main" /\ "--skip-winget" \in argv /\ pc = "done"
    /\ summary # <<>>
    /\ ~summary[1].winget_success /\ summary[1].npm_success
    /\ Len(calls) = 1

\* C13: the orchestrator reports a phase as successful if and only if the phase
\* was confirmed, its child was spawned and the child exited with code 0 within
\* the timeout; skipped, declined, non-zero exit, timeout and spawn error all
\* give not successful.  A child is run only right after the yes to its prompt,
\* and the printed summary says successful exactly for a child that ended ok.
C13_PhaseSuccess ==
    [][ script = "main" =>
          /\ summary' # <<>> =>
               /\ summary'[1].winget_success
                    = ScriptSucceededIn(calls', "winget_dev_installer.py")
               /\ summary'[1].npm_success
                    = ScriptSucceededIn(calls', "npm_dev_installer.py")
          /\ (pc' = "run_phase1" /\ pc # pc') =>
               /\ pc = "prompt_phase1"
               /\ typed'.kind = "line" /\ typed'.text \in YesLines
          /\ (pc' = "run_phase2" /\ pc # pc') =>
               /\ pc = "prompt_phase2"
               /\ typed'.kind = "line" /\ typed'.text \in YesLines
          /\ calls' # calls =>
               /\ pc \in {"run_phase1", "run_phase2"}
               /\ Len(calls') = Len(calls) + 1
               /\ calls'[Len(calls')].cmd[2]
                    = (IF pc = "run_phase1" THEN "winget_dev_installer.py"
                                            ELSE "npm_dev_installer.py")
      ]_vars

\* phase 1 succeeded, the phase-2 child could not be spawned, and the summary
\* reports one successful phase
C13_Witness ==
    /\ script = "main" /\ pc = "done" /\ Len(calls) = 2
    /\ calls[1].result = "ok"
    /\ calls[2].result = "FileNotFoundError"
    /\ summary # <<>>
    /\ summary[1].winget_success /\ ~summary[1].npm_success
    /\ summary[1].total_success = 1

\* the process has ended
Ended == pc \in {"done", "crashed"}

\* the last thing the script did was a call or a read that raised an exception
LastStepRaised ==
    \/ typed.kind = "EOFError"
    \/ /\ typed.kind = "none" /\ calls # <<>>
       /\ calls[Len(calls)].result \notin {"ok", "nonzero"}

\* C14: an installer run that reaches normal completion exits with code 0
\* whatever the failed tally holds, also when every package failed; a non-zero
\* exit code occurs only when an exception nobody handles left main().
C14_ExitCode ==
    (Installer /\ Ended) =>
      /\ pc = "done" => ExitCode = 0
      /\ ExitCode # 0 => (pc = "crashed" /\ LastStepRaised)

\* an installer printed its summary with every package in the failed tally
C14_Witness ==
    /\ Installer /\ pc = "done" /\ summary # <<>>
    /\ Len(failed_installs) = NumPackages
    /\ summary[1].total_successful = 0

\* C15 as stated: in each of the three scripts, with --help on the command line
\* the script prints the usage and returns without any side effect: no external
\* command is invoked, no prompt is read, no package is queried, installed or
\* upgraded, and the run does not end with an exception.
C15_Stated ==
    "--help" \in argv =>
      /\ calls = <<>>
      /\ typed.kind = "none"
      /\ pc \in {"main", "done"}
      /\ \A k \in Indices : pstate[k] = "unknown"
      /\ successful_installs = <<>> /\ successful_upgrades = <<>>
      /\ failed_installs = <<>> /\ skipped_packages = <<>>

\* the two files that can be the shell startup file
StartupFiles == {"ps_profile", "default_profile"}

\* how often the text sub occurs in the text t
Occurrences(sub, t) ==
    Cardinality({n \in 1..(Len(t) - Len(sub) + 1) :
                    SubSeq(t, n, n + Len(sub) - 1) = sub})

\* how many copies of the activation snippet the file content b holds
Snippets(b) ==
    IF b = Absent THEN 0
    ELSE Occurrences(profile_content_to_add, UniversalNewlines(b))

\* the generator has been run at least twice and the last run is over
RanTwice == script = "profile" /\ runs >= 2 /\ pc = "done"

\* C16 as stated: for any initial content of the shell startup file, after two
\* runs in succession the startup file is identical to its state after the
\* first run, and holds the activation snippet at most once.
C16_Stated ==
    RanTwice =>
      \A f \in StartupFiles :
          /\ files[f] = first.files[f]
          /\ Snippets(files[f]) <= 1

\* C16 amended: when a later run resolves the same startup file as the first
\* run, it leaves that file exactly as the first run left it; and no run adds
\* a copy of the snippet to a file that holds one already: a run inserts at
\* most one copy, and only into a file that held none, so a file holds more
\* than one copy only if it did before the first run.
C16_Amended ==
    [][ (script = "profile" /\ pc = "update_profile" /\ pc' = "done") =>
          /\ (runs >= 1 /\ profile_path = first.path) =>
               files'[profile_path] = first.files[profile_path]
          /\ \A f \in StartupFiles :
               \/ files'[f] = files[f]
               \/ Snippets(files[f]) = 0 /\ Snippets(files'[f]) = 1
      ]_vars

\* the first run put the snippet into a startup file that had text but no
\* marker, and the second run, on the same file, has ended
C16_Witness ==
    /\ RanTwice /\ profile_path = first.path
    /\ Snippets(files[profile_path]) = 1
    /\ Len(files[profile_path]) > Len(WriteText(new_content(<<>>), "utf-8-sig"))

\* the content b without a byte order mark at its start
AfterSignature(b) == IF b # <<>> /\ Head(b) = "BOM" THEN Tail(b) ELSE b

\* the content s is the end of the content b
IsSuffix(s, b) == Len(s) <= Len(b) /\ SubSeq(b, Len(b) - Len(s) + 1, Len(b)) = s

\* C17 as stated: the generator modifies the startup file only when the marker
\* 'fastfetch -c' is absent from its existing content; then the new content is
\* the snippet, a blank line and the previous content unchanged; when the
\* marker is present the file is not written at all.  (The byte order mark at
\* the start of the file is not counted as content.)
C17_Stated ==
    [][ (script = "profile" /\ pc = "update_profile") =>
          LET prev == AfterSignature(files[profile_path])
              new  == AfterSignature(files'[profile_path])
          IN  /\ \A f \in FileNames \ {profile_path} : files'[f] = files[f]
              /\ IF Contains(prev, Marker)
                 THEN files'[profile_path] = files[profile_path]
                 ELSE /\ IsSuffix(prev, new)
                      /\ UniversalNewlines(SubSeq(new, 1, Len(new) - Len(prev)))
                           = profile_content_to_add \o Nl \o Nl
      ]_vars

\* C18: every run overwrites ascii.txt and config.jsonc with the current
\* templates whatever they held before: the first step of a run leaves
\* ascii.txt equal to its template, the second leaves config.jsonc equal to
\* its template, and when a run is over both files hold their templates.
C18_ContentFilesOverwritten ==
    [][ script = "profile" =>
          /\ pc = "main" => files'["ascii.txt"] = WriteText(ascii_content, "utf-8")
          /\ pc = "write_config" =>
               files'["config.jsonc"] = WriteText(json_content, "utf-8")
          /\ pc' \in {"done", "crashed"} =>
               /\ files'["ascii.txt"] = WriteText(ascii_content, "utf-8")
               /\ files'["config.jsonc"] = WriteText(json_content, "utf-8")
      ]_vars

\* a second run, started after both content files were edited by hand, has
\* replaced ascii.txt and is about to replace config.jsonc
C18_Witness ==
    /\ script = "profile" /\ runs = 1 /\ pc = "write_config"
    /\ files["ascii.txt"] = WriteText(ascii_content, "utf-8")
    /\ files["config.jsonc"] = Edited

\* the calls C19 lists: those made for a package (queries, search, install,
\* upgrade), the source or cache refresh, and the orchestrator's child scripts
IsManagerOrChildCall(c) ==
    \/ script = "main"
    \/ c.pkg # 0
    \/ c.cmd \in {WingetSourceCmd, NpmCacheCmd(npm_cmd)}

\* C19 as stated: every external package-manager invocation made by the
\* installers (state query, update query, search, source or cache refresh,
\* install, upgrade) and every child-script invocation of the orchestrator is
\* waited on with a timeout, so that no single external call can block a run
\* forever.
C19_Stated ==
    script \in {"winget", "npm", "main"} =>
      \A n \in 1..Len(calls) : IsManagerOrChildCall(calls[n]) => calls[n].timed

\* the update-availability query of the installers
IsUpdateQuery(c) == c.cmd \in {WingetUpgradeQueryCmd, NpmOutdatedCmd(npm_cmd)}

\* C20 as stated: an installed package is classified InstalledUpdateAvailable
\* whenever its identifier is present in the output of the outdated/upgrade
\* query, and InstalledUpToDate otherwise.
C20_Stated ==
    Installer =>
      \A k \in Indices :
        pstate[k] \in {"InstalledUpdateAvailable", "InstalledUpToDate"} =>
          \E n \in CallsOf(k) :
              /\ IsUpdateQuery(calls[n])
              /\ (pstate[k] = "InstalledUpdateAvailable") <=> calls[n].named

\* the update query of package k exited 0 and its output names the package
UpdateDetected(k) ==
    \E n \in CallsOf(k) :
        IsUpdateQuery(calls[n]) /\ calls[n].result = "ok" /\ calls[n].named

\* the number of columns of the first line of the text o that holds the text id
\* (compared as the installer sc compares: winget ignores letter case)
ColumnsOfRow(sc, id, o) ==
    LET lines == SplitLines(o)
        hits == {k \in 1..Len(lines) :
                    IF sc = "npm" THEN Contains(lines[k], id)
                    ELSE Contains(Lower(lines[k]), Lower(id))}
    IN  IF hits = {} THEN 0
        ELSE Len(SplitWs(lines[CHOOSE k \in hits : \A j \in hits : k <= j]))

\* on every output that names the package, the parsed versions are texts, and
\* they are the placeholder when the row has too few columns to hold them
ParseDegradesToUnknown ==
    /\ \A k \in Indices : \A o \in WingetOutputs(WingetTable[k].winget_id) :
         LET id == WingetTable[k].winget_id
             v == Winget_parse_versions(id, o)
         IN  Winget_id_in(id, o) =>
               /\ Truthy(v.current) /\ Truthy(v.available)
               /\ ColumnsOfRow("winget", id, o) < 3 =>
                    (v.current = Unknown /\ v.available = Unknown)
    /\ \A k \in Indices : \A o \in NpmOutdatedOutputs(NpmTable[k].package_name) :
         LET id == NpmTable[k].package_name
             v == Npm_parse_available(id, o)
         IN  Npm_name_in(id, o) =>
               /\ Truthy(v)
               /\ ColumnsOfRow("npm", id, o) < 4 => v = Unknown

C22_Stated ==
    script = "winget" =>
      \A k \in Indices :
        pstate[k] = "NotInstalled" =>
          IF "--skip-search" \in argv
          THEN /\ ~SearchCalled(k)
               /\ (k = i /\ ~Finished(k)) => pc = "install"
               /\ Finished(k) => InstallCalled(k)
          ELSE /\ (k = i /\ ~SearchCalled(k)) => pc = "search"
               /\ (k < i \/ pc \in {"install", "done", "crashed"}) => SearchCalled(k)
               /\ (SearchCalled(k) /\ ~SearchFound(k)) =>
                    (~InstallCalled(k) /\ OnlyIn(failed_installs, k))
               /\ (SearchCalled(k) /\ SearchFound(k)) =>
                    (InstallCalled(k) \/ (k = i /\ pc = "install"))

\* C23: the orchestrator passes --skip-search to the winget child exactly when
\* it was given --skip-winget-search, passes --show-categories to the npm child
\* exactly when it was given --show-npm-categories, and forwards no other
\* argument: the command line of every child is the interpreter, the script,
\* and that one flag or nothing.
C23_FlagsForwarded ==
    script = "main" =>
      \A n \in 1..Len(calls) :
        LET c == calls[n].cmd IN
        /\ Len(c) >= 2 /\ c[1] = "python"
        /\ c[2] \in {"winget_dev_installer.py", "npm_dev_installer.py"}
        /\ c[2] = "winget_dev_installer.py" =>
             SubSeq(c, 3, Len(c)) = (IF "--skip-winget-search" \in argv
                                     THEN <<"--skip-search">> ELSE <<>>)
        /\ c[2] = "npm_dev_installer.py" =>
             SubSeq(c, 3, Len(c)) = (IF "--show-npm-categories" \in argv
                                     THEN <<"--show-categories">> ELSE <<>>)

\* with --skip-winget-search but without --show-npm-categories, both children
\* have run: the first got --skip-search, the second no argument
C23_Witness ==
    /\ script = "main" /\ pc = "done" /\ Len(calls) = 2
    /\ argv = {"--skip-winget-search"}
    /\ calls[1].cmd = <<"python", "winget_dev_installer.py", "--skip-search">>
    /\ calls[2].cmd = <<"python", "npm_dev_installer.py">>

\* the positions of the package loop of an installer
InLoop == pc \in {"list", "upgrade_query", "outdated", "prompt", "upgrade",
                  "search", "install"}

\* C24: while the package list is processed, standard input is read only on
\* the update-prompt branch: a step reads a line exactly when it is the update
\* prompt of a package whose state is InstalledUpdateAvailable, and the step
\* that classifies a package leads to the prompt if and only if the state it
\* reports is InstalledUpdateAvailable, never for NotInstalled or
\* InstalledUpToDate.
C24_PromptOnlyForUpdates ==
    [][ (Installer /\ InLoop) =>
          /\ typed'.kind # "none" <=> pc = "prompt"
          /\ pc = "prompt" => pstate[i] = "InstalledUpdateAvailable"
          /\ \A k \in Indices :
               pstate'[k] # pstate[k] =>
                 /\ k = i
                 /\ pstate'[k] = "InstalledUpdateAvailable" <=> pc' = "prompt"
          /\ (pc' = "prompt" /\ pc # "prompt") =>
               pstate'[i] = "InstalledUpdateAvailable" /\ pstate[i] = "unknown"
      ]_vars

\* the first package was found not installed and was installed without a
\* prompt, the second has an update and its prompt has just read a line
C24_Witness ==
    /\ Installer /\ i = 2
    /\ pstate[1] = "NotInstalled" /\ answer[1] = "none" /\ InstallCalled(1)
    /\ pstate[2] = "InstalledUpdateAvailable"
    /\ typed.kind = "line" /\ pc = "upgrade"

\* the identifier of the k-th package of the list this run processes
Identifier(k) ==
    IF script = "npm" THEN packages[k].package_name ELSE packages[k].winget_id

\* the static list of identifiers of the installer this run executes
StaticIdentifiers ==
    IF script = "npm" THEN Npm_package_names ELSE Winget_package_ids

\* every identifier of the list is non-empty and stands at one position only
WellFormedList(ids) ==
    \A j \in 1..Len(ids) :
      /\ ids[j] # <<>>
      /\ \A k \in 1..Len(ids) : ids[k] = ids[j] => k = j

StaticListsWellFormed ==
    /\ WellFormedList(Winget_package_ids)
    /\ WellFormedList(Npm_package_names)
    /\ WellFormedList(DevEnv_winget_ids)
    /\ WellFormedList(DevEnv_npm_package_names)

\* C25: in each script's static package list (winget installer, npm installer
\* and both lists of the unified setup script) every package identifier is
\* non-empty and no identifier appears twice; so the packages a run processes
\* are entries of its list with pairwise different identifiers, and no package
\* is queried twice in one run.
C25_IdentifiersDistinct ==
    /\ StaticListsWellFormed
    /\ Installer =>
         \A k \in Indices :
           /\ \E j \in 1..Len(StaticIdentifiers) :
                StaticIdentifiers[j] = Identifier(k)
           /\ \A j \in Indices : Identifier(j) = Identifier(k) => j = k
           /\ Cardinality({n \in CallsOf(k) :
                             SubCommand(calls[n]) = "list"}) <= 1

\* a run of the winget installer that has processed its whole list, each
\* package queried once
C25_Witness ==
    /\ script = "winget" /\ SummaryPrinted
    /\ \A k \in Indices :
         Cardinality({n \in CallsOf(k) : SubCommand(calls[n]) = "list"}) = 1

\* the step ran no external command, or ran one for package k (0: for no
\* package) that has ended, after every command of the log
RanAtMostOneCommandFor(k) ==
    \/ calls' = calls
    \/ /\ Len(calls') = Len(calls) + 1
       /\ SubSeq(calls', 1, Len(calls)) = calls
       /\ calls'[Len(calls')].pkg = k
       /\ calls'[Len(calls')].result \in
            {"ok", "nonzero", "CalledProcessError", "TimeoutExpired",
             "FileNotFoundError", "OSError", "KeyboardInterrupt"}
       /\ \A n \in 1..Len(calls) : calls[n].pkg <= k

\* C26: execution is strictly sequential. Every step of an installer runs at
\* most one external command, which has ended when the step is over, and runs
\* it for the package at hand (for no package before the loop); the loop
\* index only moves from a package to the next one, after that package was
\* classified; a package is classified once and prompted for only while it is
\* the package at hand; so all commands and the prompt of package k precede
\* every command of package k+1, and a printed summary means every package
\* was processed.
C26_Sequential ==
    [][ Installer =>
          /\ RanAtMostOneCommandFor(IF InLoop THEN i ELSE 0)
          /\ i' = i \/ (i' = i + 1 /\ pc' = "list" /\ pstate'[i] # "unknown")
          /\ \A k \in Indices :
               /\ pstate'[k] # pstate[k] => k = i /\ pstate[k] = "unknown"
               /\ answer'[k] # answer[k] => k = i /\ pc = "prompt"
               /\ k > i => pstate[k] = "unknown" /\ CallsOf(k) = {}
          /\ SummaryPrinted' =>
               /\ i' = NumPackages
               /\ \A k \in Indices : pstate'[k] # "unknown" /\ CallsOf(k)' # {}
      ]_vars

\* the second package is being installed after the first was upgraded on the
\* user's yes: the log holds the commands of package 1, then those of 2
C26_Witness ==
    /\ Installer /\ i = 2 /\ pc = "done" /\ SummaryPrinted
    /\ answer[1] = "yes" /\ UpgradeCalled(1) /\ InstallCalled(2)
    /\ \E n \in 1..Len(calls) :
         /\ \A m \in 1..n : calls[m].pkg <= 1
         /\ \A m \in (n+1)..Len(calls) : calls[m].pkg = 2
         /\ n < Len(calls) /\ calls[n].pkg = 1

\* show_categories of npm_dev_installer.main
ShowCategories == "--show-categories" \in argv \/ "--list" \in argv

\* nothing of the installation has happened: no cache clean, no command for a
\* package, no tally entry, no summary
NothingInstalled ==
    /\ \A n \in 1..Len(calls) :
         calls[n].pkg = 0 /\ calls[n].cmd # NpmCacheCmd(npm_cmd)
    /\ successful_installs = <<>> /\ successful_upgrades = <<>>
    /\ failed_installs = <<>> /\ skipped_packages = <<>>
    /\ summary = <<>>
    /\ \A k \in Indices : pstate[k] = "unknown"

\* C27: in the npm installer with --show-categories (or --list) the category
\* listing is followed by the confirmation: while it is pending nothing of the
\* installation has happened; a no answer or an interrupt ends the run at once
\* with no cache clean, no package queried, none installed or upgraded; an
\* invalid line asks again; and the cache clean (and with it the package
\* loop) starts only from the confirmation, on a yes answer.
C27_ConfirmationGuardsInstallation ==
    [][ (script = "npm" /\ ShowCategories) =>
          /\ pc = "confirm" =>
               /\ NothingInstalled /\ NothingInstalled'
               /\ typed'.kind # "none"
               /\ PromptAnswer(typed') = "no" => pc' = "done"
               /\ PromptAnswer(typed') = "yes" <=> pc' = "update_npm_cache"
               /\ pc' \in {"confirm", "done", "crashed", "update_npm_cache"}
          /\ pc' = "update_npm_cache" => pc = "confirm"
          /\ ~NothingInstalled' => pc \in {"update_npm_cache"} \cup
               {"list", "outdated", "prompt", "upgrade", "install"}
          /\ pc \in {"done", "crashed"} => pc' = pc /\ calls' = calls
      ]_vars

\* the user answered no to the confirmation: the run is over after the two
\* availability checks, with nothing cleaned, queried or installed
C27_Witness ==
    /\ script = "npm" /\ ShowCategories /\ pc = "done"
    /\ typed.kind = "line" /\ PromptAnswer(typed) = "no"
    /\ Len(calls) >= 2 /\ calls[Len(calls)].cmd = NpmVersionCmd(npm_cmd)
    /\ NothingInstalled

\* in how many tally entries the display name of package k stands
TallyEntries(k) ==
    Count(successful_installs, k) + Count(successful_upgrades, k)
      + Count(failed_installs, k) + Count(skipped_packages, k)

TallySizes ==
    Len(successful_installs) + Len(successful_upgrades)
      + Len(failed_installs) + Len(skipped_packages)

\* C28: the four tallies partition the processed packages. At every point of
\* a run of either installer a package whose loop body is over stands in
\* exactly one tally, exactly once; a package not yet processed, or still
\* being processed, stands in none; the tallies hold nothing else; and once
\* the summary is printed the four sizes sum to the length of the list.
C28_TallyPartition ==
    Installer =>
      /\ \A k \in Indices :
           TallyEntries(k) = IF Finished(k) THEN 1 ELSE 0
      /\ TallySizes = Cardinality({k \in Indices : Finished(k)})
      /\ SummaryPrinted => TallySizes = Len(packages)

\* a finished run whose two packages went to two different tallies
C28_Witness ==
    /\ Installer /\ SummaryPrinted
    /\ OnlyIn(failed_installs, 1) /\ OnlyIn(successful_upgrades, 2)
    /\ TallySizes = 2

\* install_all is at one of its availability pre-checks
AtPreCheck ==
    pc \in {"check_winget_available", "check_node_version", "check_npm_available"}

\* only version banners were asked for: no source update, no cache clean, no
\* command for a package, no tally entry, no summary
OnlyVersionsAsked ==
    /\ \A n \in 1..Len(calls) :
         calls[n].pkg = 0 /\ SubCommand(calls[n]) = "--version"
    /\ TallySizes = 0
    /\ summary = <<>>
    /\ \A k \in Indices : pstate[k] = "unknown"

\* what the orchestrator's subprocess.run returns for a child that ended with
\* the exit code rc
ChildExited(rc) == [Returned(rc, <<>>) EXCEPT !.timeout = TRUE]

\* C29: when an availability pre-check of an installer fails (the version
\* command of winget, node or npm cannot be run or fails), install_all returns
\* before the package loop: no package was queried, installed or upgraded, no
\* summary is printed, and the script still ends normally, with exit code 0;
\* the orchestrator's run_script takes a child that ended so for a phase that
\* completed successfully.
C29_FailedPreCheckEndsNormally ==
    [][ ( /\ Installer /\ AtPreCheck
          /\ Len(calls') = Len(calls) + 1
          /\ calls'[Len(calls')].result # "ok" ) =>
          /\ pc' = "done"
          /\ OnlyVersionsAsked'
          /\ ExitCode' = 0
          /\ ChildExited(ExitCode') \in ChildResults
          /\ Main_run_script(ChildExited(ExitCode'))
      ]_vars

\* npm is missing: the run of the npm installer is over after its version
\* checks, with exit code 0 and nothing processed
C29_Witness ==
    /\ script = "npm" /\ pc = "done" /\ Len(calls) >= 3
    /\ calls[Len(calls)].cmd = NpmVersionCmd(npm_cmd)
    /\ calls[Len(calls)].result = "FileNotFoundError"
    /\ calls[Len(calls) - 1].cmd = NodeVersionCmd
    /\ OnlyVersionsAsked /\ ExitCode = 0
    /\ Main_run_script(ChildExited(ExitCode))

\* the commands of the unified setup script run so far for package k of m
DevEnvCallsOf(m, k) ==
    {n \in 1..Len(calls) : calls[n].pkg = k /\ calls[n].cmd[1] = m}

\* how often the command cmd was run for package k of the manager m
DevEnvRuns(m, k, cmd) ==
    Cardinality({n \in DevEnvCallsOf(m, k) : calls[n].cmd = cmd})

\* the list query of package k of m returned, and reported it installed / not
DevEnvListedInstalled(m, k) ==
    \E n \in DevEnvCallsOf(m, k) :
      /\ calls[n].cmd = DevEnvListCmd(m)
      /\ calls[n].result = "ok" /\ calls[n].named
DevEnvListedMissing(m, k) ==
    \E n \in DevEnvCallsOf(m, k) :
      /\ calls[n].cmd = DevEnvListCmd(m)
      /\ calls[n].result \in {"ok", "nonzero"}
      /\ ~(calls[n].result = "ok" /\ calls[n].named)

\* the run is inside the loop body of a package of the manager m
DevEnvInLoop(m) == pc \in {DevEnvAt(m, s) : s \in DevEnvLoopSteps}

\* the loop body of package k of the manager m is over
DevEnvFinished(m, k) ==
    \/ DevEnvInLoop(m) /\ k < i
    \/ DevEnvCallsOf(m, k) # {} /\ ~DevEnvInLoop(m) /\ pc # "crashed"

\* the last command of the log is the update query of the package at hand and
\* reported an update
DevEnvUpdateReported(m) ==
    /\ calls # <<>>
    /\ calls[Len(calls)].pkg = i
    /\ calls[Len(calls)].cmd = DevEnvUpdateQueryCmd(m)
    /\ calls[Len(calls)].result = "ok" /\ calls[Len(calls)].named

\* C30 as stated: in the unified setup script, for every winget and npm
\* package: once the list query reported it installed the install command is
\* never run for it, and the upgrade command is run only after the update
\* query reported an update and the user confirmed; if the list query did not
\* report it installed, the install command is run exactly once; and whatever
\* is raised while a package is processed (by a command or by the prompt) is
\* caught, and the run goes on to the next package.
C30_Stated ==
    [][ script = "devenv" =>
          \A m \in Managers :
            /\ \A k \in Indices :
                 /\ DevEnvListedInstalled(m, k)' =>
                      DevEnvRuns(m, k, DevEnvInstallCmd(m))' = 0
                 /\ DevEnvRuns(m, k, DevEnvUpgradeCmd(m))' >
                      DevEnvRuns(m, k, DevEnvUpgradeCmd(m)) =>
                        k = i /\ pc = DevEnvAt(m, "upgrade")
                 /\ (DevEnvListedMissing(m, k)' /\ DevEnvFinished(m, k)') =>
                      DevEnvRuns(m, k, DevEnvInstallCmd(m))' = 1
                 /\ DevEnvRuns(m, k, DevEnvInstallCmd(m))' <= 1
            /\ pc' = DevEnvAt(m, "upgrade") =>
                 /\ pc = DevEnvAt(m, "confirm")
                 /\ ConfirmAsk(typed') = "yes"
                 /\ DevEnvUpdateReported(m)
            /\ DevEnvInLoop(m) =>
                 /\ pc' # "crashed"
                 /\ pc' \in {DevEnvAt(m, s) : s \in DevEnvLoopSteps}
                              \cup {DevEnvAfter(m)}
      ]_vars

====
